---- MODULE Spec2Model ----
(***************************************************************************)
(* The document pipeline of src/ocr_pipeline.py: grouping of the uploaded  *)
(* paths into documents, the per-document OCR -> verify -> enrich stages,  *)
(* each a thread pool over pages or records, and the collapse to one       *)
(* record per document.                                                    *)
(*                                                                         *)
(* A Python dict that travels through the pipeline (an invoice record) is  *)
(* [f |-> the map of its keys other than "other_options" to their values,  *)
(*  oo |-> <<>> when it has no "other_options" key, <<v>> when it has the  *)
(*         key with value v].                                              *)
(* The text an AI call returns is modelled by the JSON value it holds.     *)
(***************************************************************************)
EXTENDS Integers, Sequences, FiniteSets, TLC

\* ------------------------------------------------------------------ bounds
MaxFiles == 2
MaxPages == 2
MaxFaults == 1
MaxFields == 3
MaxPresets == 2
PoolSize == 2
MaxJobs == 3
MaxCalls == 3

\* ------------------------------------------------------- sequences helpers
RECURSIVE Flatten(_)
Flatten(ss) == IF ss = <<>> THEN <<>> ELSE Head(ss) \o Flatten(Tail(ss))

Indices(s) == 1..Len(s)

\* --------------------------------------------------------- records (dicts)
NoOptions == <<>>

Record(fields) == [f |-> fields, oo |-> NoOptions]

Keys(rec) == DOMAIN rec.f \cup (IF rec.oo = NoOptions THEN {} ELSE {"other_options"})

\* d[key] = value for a key other than "other_options"
SetKey(rec, key, value) ==
    [rec EXCEPT !.f = [k \in DOMAIN rec.f \cup {key} |->
                          IF k = key THEN value ELSE rec.f[k]]]

\* d["other_options"] = other
SetOptions(rec, other) == [rec EXCEPT !.oo = <<other>>]

\* ------------------------------------------------------------- JSON values
\* An element of a JSON array: an object (a dict) or anything else.
ObjItem(rec) == [isObj |-> TRUE, obj |-> rec]
ScalarItem == [isObj |-> FALSE, obj |-> Record(<<>>)]

JsonArray(items) == [t |-> "array", items |-> items]
JsonObject(rec) == [t |-> "object", items |-> <<ObjItem(rec)>>]
JsonScalar == [t |-> "scalar", items |-> <<>>]
NotJson == [t |-> "invalid", items |-> <<>>]

\* What an AI call does: it raises, or it returns a text.
Raises == [kind |-> "raise", json |-> NotJson]
Text(json) == [kind |-> "text", json |-> json]

\* extract_json on a text holding the JSON value `json`: a single object is
\* wrapped into a list, a list is returned as it is (whatever its elements
\* are), any other JSON value and any text that does not parse give [].
extract_json(json) ==
    CASE json.t = "object" -> json.items
      [] json.t = "array" -> json.items
      [] json.t = "scalar" -> <<>>
      [] OTHER -> <<>>

\* What a task hands to exe.map: the value it returns, or an exception.
Returned(value) == [exc |-> FALSE, val |-> value]

\* ------------------------------------------------- OCR stage, one page
\* Mutant: process without its try block.
ocr_process_NoHandler(img_path, resp) ==
    IF resp.kind = "raise" THEN [exc |-> TRUE, val |-> <<>>]
    ELSE LET items == extract_json(resp.json)
         IN  IF \E i \in Indices(items) : ~items[i].isObj
             THEN [exc |-> TRUE, val |-> <<>>]
             ELSE Returned([i \in Indices(items) |->
                              SetKey(items[i].obj, "__image_path", img_path)])

\* Mutant: process tags only the elements that carry no __image_path yet.
ocr_process_TrustsResponse(img_path, resp) ==
    IF resp.kind = "raise" THEN Returned(<<>>)
    ELSE LET items == extract_json(resp.json)
         IN  IF \E i \in Indices(items) : ~items[i].isObj THEN Returned(<<>>)
             ELSE Returned([i \in Indices(items) |->
                              IF "__image_path" \in DOMAIN items[i].obj.f
                              THEN items[i].obj
                              ELSE SetKey(items[i].obj, "__image_path", img_path)])

\* ocr_financial_document.process: the call, extract_json, the tagging loop.
\* Tagging an element that is no dict raises; the handler catches whatever
\* was raised and returns [].
ocr_process(img_path, resp) ==
    IF resp.kind = "raise" THEN Returned(<<>>)
    ELSE LET items == extract_json(resp.json)
         IN  IF \E i \in Indices(items) : ~items[i].isObj THEN Returned(<<>>)
             ELSE Returned([i \in Indices(items) |->
                              SetKey(items[i].obj, "__image_path", img_path)])

\* Mutant: the lists are joined last page first, as tasks that finish in
\* reverse order would give them to a join that takes them as completed.
ocr_join_Reversed(slots) ==
    IF \E p \in Indices(slots) : slots[p].exc
    THEN <<>>
    ELSE Flatten([p \in Indices(slots) |-> slots[Len(slots) + 1 - p].val])

\* for inv_list in exe.map(process, image_paths): results.extend(inv_list)
\* inside try: the lists in page order, or [] when a task raised.
ocr_join(slots) ==
    IF \E p \in Indices(slots) : slots[p].exc
    THEN <<>>
    ELSE Flatten([p \in Indices(slots) |-> slots[p].val])

\* ------------------------------------------- verification stage, one record
\* Mutant: the handler of process starts from an empty dict, not a copy.
verify_fixed_NoCopy(inv, resp) ==
    IF resp.kind = "raise" THEN ObjItem(Record(<<>>))
    ELSE LET fixed_list == extract_json(resp.json)
         IN  IF fixed_list # <<>> THEN fixed_list[1] ELSE ObjItem(Record(<<>>))

\* The value `fixed` holds when the try block of process is left: the first
\* element of the parsed response, or a copy of the input when the call
\* raised or nothing was parsed.
verify_fixed(inv, resp) ==
    IF resp.kind = "raise" THEN ObjItem(inv)
    ELSE LET fixed_list == extract_json(resp.json)
         IN  IF fixed_list # <<>> THEN fixed_list[1] ELSE ObjItem(inv)

\* verify_financial_extraction.process: fixed["__image_path"] = img_path is
\* outside the try block, so it raises out of process when fixed is no dict.
verify_process(inv, resp) ==
    LET img_path == inv.f["__image_path"]
        fixed == verify_fixed(inv, resp)
    IN  IF fixed.isObj
        THEN Returned(SetKey(fixed.obj, "__image_path", img_path))
        ELSE [exc |-> TRUE, val |-> inv]

\* Mutant: the records of the tasks that raised are left out.
verify_join_DropsFailed(extracted_invoices, slots) ==
    LET ok == SelectSeq(slots, LAMBDA slot : ~slot.exc)
    IN  [k \in Indices(ok) |-> ok[k].val]

\* list(exe.map(process, extracted_invoices)) inside try: the first
\* exception of a task is raised by the iteration and the handler returns
\* the input list.
verify_join(extracted_invoices, slots) ==
    IF \E k \in Indices(slots) : slots[k].exc
    THEN extracted_invoices
    ELSE [k \in Indices(slots) |-> slots[k].val]

\* ------------------------------------------------ enrichment, one record
\* JSON scalars inside an option list.
Str(s) == [k |-> "str", s |-> s, n |-> 0]
Num(n) == [k |-> "num", s |-> "", n |-> n]
Null == [k |-> "null", s |-> "", n |-> 0]

\* An element of "options": a dict with "option" and "score", or a scalar.
PairItem(option, score) == [isPair |-> TRUE, option |-> option, score |-> score]
Plain(x) == [isPair |-> FALSE, option |-> x, score |-> Null]

\* float() on the texts the model uses.
NumericTexts == {"80", "20"}
ParseNumber(s) == CASE s = "80" -> 80 [] s = "20" -> 20 [] OTHER -> 0

\* try: sc = float(score) / except: sc = None
AsScore(item) ==
    IF item.isPair THEN Null
    ELSE CASE item.option.k = "num" -> item.option
           [] item.option.k = "str" /\ item.option.s \in NumericTexts ->
                  Num(ParseNumber(item.option.s))
           [] OTHER -> Null

\* Mutant: the flat branch stores the score as it came, without float().
PairsOf_RawScore(raw_opts) ==
    IF \A i \in Indices(raw_opts) : raw_opts[i].isPair
    THEN [i \in Indices(raw_opts) |->
             [val |-> Plain(raw_opts[i].option), sc |-> raw_opts[i].score]]
    ELSE [i \in 1..(Len(raw_opts) \div 2) |->
             [val |-> raw_opts[2 * i - 1], sc |-> raw_opts[2 * i].option]]

\* The pairs built from raw_opts: the structured pairs when every element is
\* one, else the flat list zipped two by two (an odd last element is dropped).
PairsOf(raw_opts) ==
    IF \A i \in Indices(raw_opts) : raw_opts[i].isPair
    THEN [i \in Indices(raw_opts) |->
             [val |-> Plain(raw_opts[i].option), sc |-> raw_opts[i].score]]
    ELSE [i \in 1..(Len(raw_opts) \div 2) |->
             [val |-> raw_opts[2 * i - 1], sc |-> AsScore(raw_opts[2 * i])]]

\* human_label.lower().replace(" ", "_") on the labels the model uses.
NormalizeKey(human_label) ==
    CASE human_label = "Invoice Number" -> "invoice_number"
      [] OTHER -> human_label

\* A value of the reasoning response's object: a dict with "options" (a
\* list, or a truthy value that cannot be iterated) and maybe "reason", or
\* something that is no dict.
Payload(options, reason) ==
    [isDict |-> TRUE, iter |-> TRUE, options |-> options, reason |-> reason]
BadOptions == [isDict |-> TRUE, iter |-> FALSE, options |-> <<>>, reason |-> <<>>]
NoDict == [isDict |-> FALSE, iter |-> FALSE, options |-> <<>>, reason |-> <<>>]

Entry(label, payload) == [label |-> label, payload |-> payload]

\* The loop over info.items(): payloads that are no dict are skipped, a
\* field with more than one pair is stored under its normalised key, and
\* iterating options that are not iterable raises.
RECURSIVE MergeOptions(_, _)
MergeOptions(entries, other) ==
    IF entries = <<>> THEN [exc |-> FALSE, other |-> other]
    ELSE LET e == Head(entries)
             pairs == PairsOf(e.payload.options)
             key == NormalizeKey(e.label)
         IN  IF ~e.payload.isDict THEN MergeOptions(Tail(entries), other)
             ELSE IF ~e.payload.iter THEN [exc |-> TRUE, other |-> other]
             ELSE IF Len(pairs) > 1
                  THEN MergeOptions(Tail(entries),
                           [k \in DOMAIN other \cup {key} |->
                               IF k = key
                               THEN [options |-> pairs, reason |-> e.payload.reason]
                               ELSE other[k]])
                  ELSE MergeOptions(Tail(entries), other)

\* An element of the reasoning response's array.
InfoItem(entries) == [isObj |-> TRUE, obj |-> entries]
InfoScalar == [isObj |-> FALSE, obj |-> <<>>]

\* reasoning_agent: every failure (the call raises, the text does not parse)
\* gives []; a single object is wrapped, a JSON value that is no list gives [].
reasoning_agent(resp) ==
    IF resp.kind = "raise" THEN <<>>
    ELSE CASE resp.json.t = "object" -> resp.json.items
           [] resp.json.t = "array" -> resp.json.items
           [] OTHER -> <<>>

\* Mutant: work assigns inv["other_options"] before it looks at the answer.
work_AttachesFirst(inv, resp) ==
    IF "__image_path" \notin DOMAIN inv.f \/ inv.f["__image_path"] = "" THEN inv
    ELSE LET details == reasoning_agent(resp)
             m == IF details = <<>> \/ ~details[1].isObj
                  THEN [exc |-> FALSE, other |-> <<>>]
                  ELSE MergeOptions(details[1].obj, <<>>)
         IN  SetOptions(inv, m.other)

\* enrich_with_other_options.work: the record after the call (the dict is
\* changed in place and returned).
work(inv, resp) ==
    IF "__image_path" \notin DOMAIN inv.f \/ inv.f["__image_path"] = "" THEN inv
    ELSE LET details == reasoning_agent(resp)
         IN  IF details = <<>> THEN inv
             ELSE IF ~details[1].isObj THEN inv
             ELSE LET m == MergeOptions(details[1].obj, <<>>)
                  IN  IF m.exc \/ DOMAIN m.other = {} THEN inv
                      ELSE SetOptions(inv, m.other)

\* ---------------------------------------------------- what the AI returns
Invoice1 == Record("invoice_number" :> "INV-1" @@ "total_invoice_amount" :> "100")
Invoice2 == Record("invoice_number" :> "INV-2" @@ "total_invoice_amount" :> "250")

\* A record in which the response itself uses the pipeline's own keys.
StrayOptions == "invoice_number" :> [options |-> <<>>, reason |-> <<"from the extraction">>]
InvoiceWithPipelineKeys ==
    [f |-> ("invoice_number" :> "INV-1" @@ "__image_path" :> "elsewhere.jpg"
            @@ "__doc_stem" :> "elsewhere"),
     oo |-> <<StrayOptions>>]

\* The extraction call's usual answer, and the other answers the model draws.
ExtractNominal == Text(JsonArray(<<ObjItem(Invoice1)>>))
ExtractDeviations ==
    { Raises,
      Text(NotJson),
      Text(JsonScalar),
      Text(JsonArray(<<>>)),
      Text(JsonArray(<<ScalarItem>>)),
      Text(JsonArray(<<ObjItem(Invoice1), ScalarItem>>)),
      Text(JsonObject(Invoice2)),
      Text(JsonArray(<<ObjItem(Invoice1), ObjItem(Invoice2)>>)),
      Text(JsonArray(<<ObjItem(InvoiceWithPipelineKeys)>>)) }

\* The verification call's usual answer: the record with one value corrected.
Corrected(inv) == SetKey(inv, "total_invoice_amount", "120")
Reshaped == Record("total_invoice_amount" :> "120" @@ "currency" :> "PKR")
\* A verification answer that carries tags of its own.
Retagged ==
    Record("invoice_number" :> "INV-1" @@ "__image_path" :> "elsewhere.jpg"
           @@ "__doc_stem" :> "elsewhere")
VerifyNominal(inv) == Text(JsonArray(<<ObjItem(Corrected(inv))>>))
VerifyDeviations ==
    { Raises,
      Text(JsonObject(Retagged)),
      Text(NotJson),
      Text(JsonArray(<<>>)),
      Text(JsonArray(<<ScalarItem>>)),
      Text(JsonObject(Reshaped)) }

\* The reasoning call's usual answer: one ambiguous field, one certain field.
TwoReadings == <<PairItem(Str("INV-1"), Num(80)), PairItem(Str("INV-7"), Num(20))>>
OneReading == <<PairItem(Str("ABC Textiles"), Num(100))>>
SameReadingTwice == <<PairItem(Str("INV-1"), Num(80)), PairItem(Str("INV-1"), Num(80))>>
FlatReadings == <<Plain(Str("INV-1")), Plain(Str("80")), Plain(Str("INV-7")), Plain(Str("high"))>>

ReasonText(entries) == Text(JsonArray(<<InfoItem(entries)>>))
ReasonNominal ==
    ReasonText(<<Entry("invoice_number", Payload(TwoReadings, <<"digit unclear">>)),
                 Entry("supplier_name", Payload(OneReading, <<>>))>>)
ReasonDeviations ==
    { Raises,
      Text(NotJson),
      Text(JsonArray(<<InfoScalar>>)),
      ReasonText(<<Entry("supplier_name", Payload(OneReading, <<>>))>>),
      ReasonText(<<Entry("invoice_number", Payload(SameReadingTwice, <<>>))>>),
      ReasonText(<<Entry("invoice_number", Payload(FlatReadings, <<>>))>>),
      ReasonText(<<Entry("invoice_number", Payload(TwoReadings, <<>>)),
                   Entry("supplier_name", BadOptions)>>),
      ReasonText(<<Entry("invoice_number", NoDict),
                   Entry("supplier_name", Payload(OneReading, <<>>))>>),
      ReasonText(<<Entry("Invoice Number", Payload(TwoReadings, <<"first">>)),
                   Entry("invoice_number", Payload(OneReading, <<>>))>>) }

\* ------------------------------------------------------------------ paths
UploadPaths ==
    { [stem |-> "invoice_A", ext |-> "pdf"],
      [stem |-> "invoice_B", ext |-> "jpg"],
      [stem |-> "invoice_B", ext |-> "PDF"] }

\* str.lower() on the suffixes the model uses.
Lower(ext) == CASE ext = "PDF" -> "pdf" [] OTHER -> ext

PathStr(path) == path.stem \o "." \o path.ext

\* convert_pdf_to_images: f"{filename}_page_{i}.jpg" under images/<stem>
PageImage(stem, i) ==
    "images/" \o stem \o "/" \o stem \o "_page_" \o ToString(i) \o ".jpg"

\* Mutant: the pages of a later file replace the pages its stem already has.
Extend_Overwrites(groups, stem, pages) ==
    IF \E i \in Indices(groups) : groups[i].stem = stem
    THEN [i \in Indices(groups) |->
             IF groups[i].stem = stem
             THEN [groups[i] EXCEPT !.pages = pages]
             ELSE groups[i]]
    ELSE Append(groups, [stem |-> stem, pages |-> pages])

\* doc_to_pages[stem].extend(pages) on the ordered dict
Extend(groups, stem, pages) ==
    IF \E i \in Indices(groups) : groups[i].stem = stem
    THEN [i \in Indices(groups) |->
             IF groups[i].stem = stem
             THEN [groups[i] EXCEPT !.pages = @ \o pages]
             ELSE groups[i]]
    ELSE Append(groups, [stem |-> stem, pages |-> pages])

\* ------------------------------------------------------------- rasteriser
\* What pdf2image and the file system do for one PDF: n pages are rendered
\* and saved, convert_from_path raises on the file, or os.makedirs raises.
RasterOutcomes ==
    {[kind |-> "ok", n |-> n] : n \in 0..MaxPages}
        \cup {[kind |-> "corrupt", n |-> 0], [kind |-> "no_folder", n |-> 0]}

\* convert_pdf_to_images: os.makedirs stands before the try block, the
\* rendering and saving inside it.
convert_pdf_to_images(stem, outcome) ==
    CASE outcome.kind = "no_folder" -> [exc |-> TRUE, val |-> <<>>]
      [] outcome.kind = "corrupt" -> Returned(<<>>)
      [] OTHER -> Returned([i \in 1..outcome.n |-> PageImage(stem, i)])

\* batch_convert_pdfs_to_images.worker
worker(stem, outcome) ==
    IF convert_pdf_to_images(stem, outcome).exc
    THEN Returned(<<>>)
    ELSE convert_pdf_to_images(stem, outcome)

\* Mutant: neither worker nor the batch function handles the exception.
batch_convert_pdfs_to_images_Reraise(stem, outcome) ==
    convert_pdf_to_images(stem, outcome)

\* batch_convert_pdfs_to_images on the one-element list [path]
batch_convert_pdfs_to_images(stem, outcome) ==
    IF worker(stem, outcome).exc THEN Returned(<<>>) ELSE worker(stem, outcome)

\* ------------------------------------------------- process_doc, collapse
\* Mutant: process_doc without the tagging loop.
TagDoc_Untagged(stem, enriched) == enriched

\* Mutant: every record is tagged with the same stem, whatever its document.
TagDoc_SameStem(stem, enriched) ==
    [k \in Indices(enriched) |-> SetKey(enriched[k], "__doc_stem", "document")]

\* for inv in enriched: inv["__doc_stem"] = stem
TagDoc(stem, enriched) ==
    [k \in Indices(enriched) |-> SetKey(enriched[k], "__doc_stem", stem)]

\* Mutant: the handler of process_doc raises again.
process_doc_except_Reraise == [exc |-> TRUE, val |-> <<>>]

\* The handler of process_doc: return []
process_doc_except == Returned(<<>>)

\* Mutant: step 4 without the seen set.
Filter_KeepsAll(invoices, seen) == invoices

\* Mutant: step 4 keeps the last record of every stem instead of the first.
Filter_KeepsLast(invoices, seen) ==
    LET last == {i \in Indices(invoices) :
                    \A j \in Indices(invoices) :
                        j > i => invoices[j].f["__doc_stem"] # invoices[i].f["__doc_stem"]}
        pick[i \in 0..Len(invoices)] ==
            IF i = 0 THEN <<>>
            ELSE IF i \in last THEN Append(pick[i - 1], invoices[i]) ELSE pick[i - 1]
    IN  pick[Len(invoices)]

\* Step 4 of process_invoices_as_docs: the first record of each stem.
RECURSIVE Filter(_, _)
Filter(invoices, seen) ==
    IF invoices = <<>> THEN <<>>
    ELSE LET stem == Head(invoices).f["__doc_stem"]
         IN  IF stem \notin seen
             THEN <<Head(invoices)>> \o Filter(Tail(invoices), seen \cup {stem})
             ELSE Filter(Tail(invoices), seen)

\* ------------------------------------------------------------------ state
VARIABLES
    uploaded_paths,   \* the argument: a list of paths
    api_key,          \* GEMINI_API_KEY as enrich_with_other_options finds it
    ai,               \* the AI capability: "up", or "down" (every call raises)
    pc,               \* process_invoices_as_docs: "group", "dispatch", "collapse", "returned", "raised"
    gi,               \* the grouping loop's position in uploaded_paths
    converted,        \* per path grouped so far: how it was read and the pages it gave
    doc_to_pages,     \* the ordered dict, as a list of [stem, pages]
    dpc,              \* per document task: "ocr", "verify", "enrich", "done"
    ocrSlot,          \* per document, per page: the call's response and process's list
    extracted,        \* per document: what ocr_financial_document returned
    verSlot,          \* per document, per record: the response and process's outcome
    verified,         \* per document: what verify_financial_extraction returned
    enrResp,          \* per document, per record: the reasoning call's response
    enriched,         \* per document: the dicts work changes in place
    docRet,           \* per document: what process_doc handed back
    all_invoices,
    filtered,         \* the list process_invoices_as_docs returns
    faults,           \* calls so far whose answer was not the usual one
    raw_text,         \* extract_json called on its own: the text it is given
    parsed,           \* extract_json called on its own: what the call gave
    config_file,      \* field_config.json: "missing", "complete" or "partial"
    loader,           \* per document task: where it is in FieldConfigManager()
    saver,            \* the module's own manager: where it is in save_config
    saved,            \* whose fields and presets the text of field_config.json is
    fields,           \* a manager's self.fields: the ordered dict as a list of [key, def]
    presets,          \* a manager's self.presets: the ordered dict as a list of [name, names]
    stored,           \* what save_config last wrote: <<>> or <<the JSON document>>
    answer,           \* the last call of a manager's method and what it returned
    run,              \* the worker pools: where process_invoices_as_docs is
    job,              \* the worker pools: per document task, its pages and its stage
    call              \* the worker pools: per document and stage, the state of each call

vars == <<uploaded_paths, api_key, ai, pc, gi, converted, doc_to_pages, dpc, ocrSlot, extracted,
          verSlot, verified, enrResp, enriched, docRet, all_invoices,
          filtered, faults, raw_text, parsed, config_file, loader, saver, saved,
          fields, presets, stored, answer, run, job, call>>

manager == <<fields, presets, stored, answer>>
pools == <<run, job, call>>

\* What a run of process_invoices_as_docs over given paths leaves alone.
aside == <<raw_text, parsed, config_file, loader, saver, saved, manager, pools>>

input == <<uploaded_paths, api_key, ai>>
main == <<pc, gi, converted, doc_to_pages, all_invoices, filtered>>

Pending == [kind |-> "pending", json |-> NotJson]
IsDone(resp) == resp.kind # "pending"

Docs == Indices(doc_to_pages)

\* The answers a call may give now. While the capability is down every call
\* raises. Otherwise a call gives its usual answer, or any other answer
\* while fewer than MaxFaults calls of this run have departed from the usual.
Choices(nominal, deviations) ==
    IF ai = "down" THEN {Raises}
    ELSE {nominal} \cup (IF faults < MaxFaults THEN deviations ELSE {})
Count(resp, nominal) ==
    IF ai = "down" \/ resp = nominal THEN faults ELSE faults + 1

\* extract_json is not being called on its own.
NoText == [before |-> FALSE, fence |-> "none", body |-> NotJson, after |-> FALSE]
NotCalled == [called |-> FALSE, exc |-> FALSE, val |-> <<>>]

\* No FieldConfigManager is being constructed and none is saving.
ConfigIdle ==
    /\ config_file = "complete"
    /\ loader = <<>>
    /\ saver = [at |-> "idle", alone |-> TRUE]
    /\ saved = "stored"

\* No method of a manager is being called.
NoAnswer == [op |-> "none", selection |-> <<>>, result |-> <<>>]
ManagerIdle ==
    /\ fields = <<>>
    /\ presets = <<>>
    /\ stored = <<>>
    /\ answer = NoAnswer

\* The worker pools are not being followed.
NotRunning == [pc |-> "idle", gi |-> 1, raster |-> "idle"]
PoolsIdle ==
    /\ run = NotRunning
    /\ job = <<>>
    /\ call = <<>>

Init ==
    /\ uploaded_paths \in UNION {[1..n -> UploadPaths] : n \in 0..MaxFiles}
    /\ api_key \in {"", "key"}
    /\ ai \in {"up", "down"}
    /\ pc = "group"
    /\ gi = 1
    /\ converted = <<>>
    /\ doc_to_pages = <<>>
    /\ dpc = <<>>
    /\ ocrSlot = <<>>
    /\ extracted = <<>>
    /\ verSlot = <<>>
    /\ verified = <<>>
    /\ enrResp = <<>>
    /\ enriched = <<>>
    /\ docRet = <<>>
    /\ all_invoices = <<>>
    /\ filtered = <<>>
    /\ faults = 0
    /\ raw_text = NoText
    /\ parsed = NotCalled
    /\ ConfigIdle
    /\ ManagerIdle
    /\ PoolsIdle

\* Step 1, one path: a PDF is rasterised to its pages (no page when the
\* conversion fails), any other path is a page itself; an exception of the
\* conversion makes process_invoices_as_docs return [].
Group ==
    /\ pc = "group"
    /\ gi <= Len(uploaded_paths)
    /\ LET path == uploaded_paths[gi]
       IN  IF Lower(path.ext) = "pdf"
           THEN \E outcome \in RasterOutcomes :
                    LET pages == batch_convert_pdfs_to_images(path.stem, outcome)
                    IN  /\ converted' = Append(converted,
                                            [failed |-> outcome.kind # "ok",
                                             pages |-> pages.val])
                        /\ IF pages.exc
                           THEN /\ pc' = "returned"
                                /\ filtered' = <<>>
                                /\ UNCHANGED doc_to_pages
                           ELSE /\ doc_to_pages' = Extend(doc_to_pages, path.stem, pages.val)
                                /\ UNCHANGED <<pc, filtered>>
           ELSE /\ converted' = Append(converted,
                                    [failed |-> FALSE, pages |-> <<PathStr(path)>>])
                /\ doc_to_pages' = Extend(doc_to_pages, path.stem, <<PathStr(path)>>)
                /\ UNCHANGED <<pc, filtered>>
    /\ gi' = gi + 1
    /\ UNCHANGED <<aside, input, dpc, ocrSlot, extracted, verSlot, verified, enrResp,
                   enriched, docRet, all_invoices, faults>>

\* Step 3: exe.map submits process_doc for every document; each enters
\* ocr_financial_document, which submits process for every page.
Dispatch ==
    /\ pc = "group"
    /\ gi > Len(uploaded_paths)
    /\ pc' = "dispatch"
    /\ dpc' = [d \in Docs |-> "ocr"]
    /\ ocrSlot' = [d \in Docs |->
                      [p \in Indices(doc_to_pages[d].pages) |->
                          [resp |-> Pending, exc |-> FALSE, val |-> <<>>]]]
    /\ extracted' = [d \in Docs |-> <<>>]
    /\ verSlot' = [d \in Docs |-> <<>>]
    /\ verified' = [d \in Docs |-> <<>>]
    /\ enrResp' = [d \in Docs |-> <<>>]
    /\ enriched' = [d \in Docs |-> <<>>]
    /\ docRet' = [d \in Docs |-> Returned(<<>>)]
    /\ UNCHANGED <<aside, input, gi, converted, doc_to_pages, all_invoices, filtered, faults>>

\* ocr_financial_document.process for one page
OcrPage(d, p) ==
    /\ dpc[d] = "ocr"
    /\ ~IsDone(ocrSlot[d][p].resp)
    /\ \E resp \in Choices(ExtractNominal, ExtractDeviations) :
          /\ ocrSlot' = [ocrSlot EXCEPT ![d][p] =
                            [resp |-> resp,
                             exc |-> ocr_process(doc_to_pages[d].pages[p], resp).exc,
                             val |-> ocr_process(doc_to_pages[d].pages[p], resp).val]]
          /\ faults' = Count(resp, ExtractNominal)
    /\ UNCHANGED <<aside, input, main, dpc, extracted, verSlot, verified, enrResp,
                   enriched, docRet>>

\* ocr_financial_document returns the pages' lists in page order, and
\* verify_financial_extraction submits process for every record.
OcrJoin(d) ==
    /\ dpc[d] = "ocr"
    /\ \A p \in Indices(ocrSlot[d]) : IsDone(ocrSlot[d][p].resp)
    /\ LET results == ocr_join(ocrSlot[d])
       IN  /\ extracted' = [extracted EXCEPT ![d] = results]
           /\ verSlot' = [verSlot EXCEPT ![d] =
                             [k \in Indices(results) |->
                                 [resp |-> Pending, exc |-> FALSE, val |-> results[k]]]]
    /\ dpc' = [dpc EXCEPT ![d] = "verify"]
    /\ UNCHANGED <<aside, input, main, ocrSlot, verified, enrResp, enriched, docRet, faults>>

\* verify_financial_extraction.process for one record
VerifyRecord(d, k) ==
    /\ dpc[d] = "verify"
    /\ ~IsDone(verSlot[d][k].resp)
    /\ LET inv == extracted[d][k]
       IN  \E resp \in Choices(VerifyNominal(inv), VerifyDeviations) :
              /\ verSlot' = [verSlot EXCEPT ![d][k] =
                                [resp |-> resp,
                                 exc |-> verify_process(inv, resp).exc,
                                 val |-> verify_process(inv, resp).val]]
              /\ faults' = Count(resp, VerifyNominal(inv))
    /\ UNCHANGED <<aside, input, main, dpc, ocrSlot, extracted, verified, enrResp,
                   enriched, docRet>>

\* verify_financial_extraction returns; enrich_with_other_options returns its
\* argument at once without a key (process_doc then tags and returns), and
\* otherwise submits work for every record.
VerifyJoin(d) ==
    /\ dpc[d] = "verify"
    /\ \A k \in Indices(verSlot[d]) : IsDone(verSlot[d][k].resp)
    /\ LET result == verify_join(extracted[d], verSlot[d])
       IN  /\ verified' = [verified EXCEPT ![d] = result]
           /\ enriched' = [enriched EXCEPT ![d] = result]
           /\ IF api_key = ""
              THEN /\ dpc' = [dpc EXCEPT ![d] = "done"]
                   /\ docRet' = [docRet EXCEPT ![d] =
                                    Returned(TagDoc(doc_to_pages[d].stem, result))]
                   /\ UNCHANGED enrResp
              ELSE /\ dpc' = [dpc EXCEPT ![d] = "enrich"]
                   /\ enrResp' = [enrResp EXCEPT ![d] =
                                     [k \in Indices(result) |-> Pending]]
                   /\ UNCHANGED docRet
    /\ UNCHANGED <<aside, input, main, ocrSlot, extracted, verSlot, faults>>

\* enrich_with_other_options.work for one record
EnrichRecord(d, k) ==
    /\ dpc[d] = "enrich"
    /\ ~IsDone(enrResp[d][k])
    /\ \E resp \in Choices(ReasonNominal, ReasonDeviations) :
          /\ enrResp' = [enrResp EXCEPT ![d][k] = resp]
          /\ enriched' = [enriched EXCEPT ![d][k] = work(@, resp)]
          /\ faults' = Count(resp, ReasonNominal)
    /\ UNCHANGED <<aside, input, main, dpc, ocrSlot, extracted, verSlot, verified, docRet>>

\* enrich_with_other_options returns; process_doc tags and returns.
EnrichJoin(d) ==
    /\ dpc[d] = "enrich"
    /\ \A k \in Indices(enrResp[d]) : IsDone(enrResp[d][k])
    /\ dpc' = [dpc EXCEPT ![d] = "done"]
    /\ docRet' = [docRet EXCEPT ![d] = Returned(TagDoc(doc_to_pages[d].stem, enriched[d]))]
    /\ UNCHANGED <<aside, input, main, ocrSlot, extracted, verSlot, verified, enrResp,
                   enriched, faults>>

\* An exception the stage functions do not handle themselves reaches the
\* handler of process_doc: the instruction is built outside their try
\* blocks, before the first call of the extraction and of the verification.
DocRaise(d) ==
    /\ \/ /\ dpc[d] = "ocr"
          /\ \A p \in Indices(ocrSlot[d]) : ~IsDone(ocrSlot[d][p].resp)
       \/ /\ dpc[d] = "verify"
          /\ extracted[d] # <<>>
          /\ \A k \in Indices(verSlot[d]) : ~IsDone(verSlot[d][k].resp)
    /\ dpc' = [dpc EXCEPT ![d] = "aborted"]
    /\ docRet' = [docRet EXCEPT ![d] = process_doc_except]
    /\ UNCHANGED <<aside, input, main, ocrSlot, extracted, verSlot, verified, enrResp,
                   enriched, faults>>

Finished(d) == dpc[d] \in {"done", "aborted"}

\* The loop over exe.map's results, which takes them in document order and
\* ends when every task has: each list is appended; an exception of a task
\* leaves the with block and the handler returns [].
Collect ==
    /\ pc = "dispatch"
    /\ \A d \in Docs : Finished(d)
    /\ IF \E d \in Docs : docRet[d].exc
       THEN /\ pc' = "returned"
            /\ filtered' = <<>>
            /\ UNCHANGED all_invoices
       ELSE /\ pc' = "collapse"
            /\ all_invoices' = Flatten([d \in Docs |-> docRet[d].val])
            /\ UNCHANGED filtered
    /\ UNCHANGED <<aside, input, gi, converted, doc_to_pages, dpc, ocrSlot, extracted, verSlot,
                   verified, enrResp, enriched, docRet, faults>>

\* Step 4 and the return; inv["__doc_stem"] raises on a record without it.
Collapse ==
    /\ pc = "collapse"
    /\ IF \E i \in Indices(all_invoices) : "__doc_stem" \notin DOMAIN all_invoices[i].f
       THEN /\ pc' = "raised"
            /\ UNCHANGED filtered
       ELSE /\ pc' = "returned"
            /\ filtered' = Filter(all_invoices, {})
    /\ UNCHANGED <<aside, input, gi, converted, doc_to_pages, dpc, ocrSlot, extracted, verSlot,
                   verified, enrResp, enriched, docRet, all_invoices, faults>>

\* The document tasks exist once exe.map has submitted them.
Tasks == IF pc = "group" THEN {} ELSE Docs

Next ==
    \/ Group
    \/ Dispatch
    \/ \E d \in Tasks : \E p \in Indices(ocrSlot[d]) : OcrPage(d, p)
    \/ \E d \in Tasks : OcrJoin(d)
    \/ \E d \in Tasks : \E k \in Indices(verSlot[d]) : VerifyRecord(d, k)
    \/ \E d \in Tasks : VerifyJoin(d)
    \/ \E d \in Tasks : \E k \in Indices(enrResp[d]) : EnrichRecord(d, k)
    \/ \E d \in Tasks : EnrichJoin(d)
    \/ Collect
    \/ Collapse

Spec == Init /\ [][Next]_vars

\* The same run when process_doc's own handler may be reached.
NextFault == Next \/ \E d \in Tasks : DocRaise(d)

SpecFault == Init /\ [][NextFault]_vars

\* ------------------------------------------------- extract_json on a text
\* Texts json.loads does not take as the other bodies: brackets nested
\* deeper than the interpreter recurses, and words inside braces.
TooDeep == [t |-> "deep", items |-> <<>>]
Braced == [t |-> "braced", items |-> <<>>]

\* What a response text holds between its prose and fences.
Bodies ==
    { JsonArray(<<>>),
      JsonArray(<<ObjItem(Invoice1)>>),
      JsonArray(<<ObjItem(Invoice1), ObjItem(Invoice2)>>),
      JsonArray(<<ObjItem(Invoice1), ScalarItem>>),
      JsonObject(Invoice2),
      JsonScalar,
      NotJson,
      Braced,
      TooDeep }

\* A response text: prose before, a ```json fence, a bare ``` fence or none
\* around the body, prose after.
RawTexts ==
    [before : BOOLEAN, fence : {"none", "json", "bare"}, body : Bodies, after : BOOLEAN]

\* re.search(fence_pattern, raw_text): a ```json fence around text that
\* starts with { or [ and ends with the matching bracket.
FenceMatches(text) ==
    text.fence = "json" /\ text.body.t \in {"array", "object", "braced", "deep"}

\* payload = m.group(1) if m else raw_text.strip(): the body, and whether
\* anything stands before it or after it in the payload.
PayloadOf(text) ==
    IF FenceMatches(text)
    THEN [body |-> text.body, lead |-> FALSE, trail |-> FALSE]
    ELSE [body |-> text.body,
          lead |-> text.before \/ text.fence # "none",
          trail |-> text.after \/ text.fence # "none"]

\* extract_json on a text: json.loads fails at once on a payload that does
\* not start with the JSON, raises RecursionError (which the except clause
\* for json.JSONDecodeError does not take) on brackets nested too deep, and
\* fails on text that follows the JSON.
extract_json_text(text) ==
    LET payload == PayloadOf(text)
    IN  IF payload.lead THEN Returned(<<>>)
        ELSE IF payload.body.t = "deep" THEN [exc |-> TRUE, val |-> <<>>]
        ELSE IF payload.trail \/ payload.body.t = "braced" THEN Returned(<<>>)
        ELSE Returned(extract_json(payload.body))

\* No run of process_invoices_as_docs is under way.
PipelineIdle ==
    /\ uploaded_paths = <<>>
    /\ api_key = ""
    /\ ai = "up"
    /\ pc = "idle"
    /\ gi = 1
    /\ converted = <<>>
    /\ doc_to_pages = <<>>
    /\ dpc = <<>>
    /\ ocrSlot = <<>>
    /\ extracted = <<>>
    /\ verSlot = <<>>
    /\ verified = <<>>
    /\ enrResp = <<>>
    /\ enriched = <<>>
    /\ docRet = <<>>
    /\ all_invoices = <<>>
    /\ filtered = <<>>
    /\ faults = 0

pipeline == <<uploaded_paths, api_key, ai, pc, gi, converted, doc_to_pages, dpc, ocrSlot,
              extracted, verSlot, verified, enrResp, enriched, docRet, all_invoices,
              filtered, faults>>

InitParse ==
    /\ PipelineIdle
    /\ raw_text \in RawTexts
    /\ parsed = NotCalled
    /\ ConfigIdle
    /\ ManagerIdle
    /\ PoolsIdle

\* The call extract_json(raw_text)
ParseCall ==
    /\ ~parsed.called
    /\ parsed' = [called |-> TRUE,
                  exc |-> extract_json_text(raw_text).exc,
                  val |-> extract_json_text(raw_text).val]
    /\ UNCHANGED <<pipeline, raw_text, config_file, loader, saver, saved, manager, pools>>

NextParse == ParseCall

SpecParse == InitParse /\ [][NextParse]_vars

\* ------------------------------------- FieldConfigManager() in the tasks
\* Every document task constructs a FieldConfigManager when it enters
\* ocr_financial_document and again when it enters
\* verify_financial_extraction; the constructor runs load_config on
\* field_config.json of the working directory. The module's own instance
\* (field_manager = FieldConfigManager()) has run the same constructor when
\* the module was imported, so the file is complete at that moment; it is
\* missing or partial when a run starts if it was removed, is being rewritten
\* by save_config of another session, or the working directory has changed.
Building(stage) == [stage |-> stage, at |-> "start", fields |-> "none", alone |-> TRUE]

\* The module's own manager, which the configuration page saves.
Saver(at) == [at |-> at, alone |-> TRUE]

InitConfig ==
    /\ PipelineIdle
    /\ raw_text = NoText
    /\ parsed = NotCalled
    /\ config_file \in {"missing", "complete", "partial"}
    /\ loader \in UNION {[1..n -> {Building("ocr")}] : n \in 1..MaxFiles}
    /\ saver = Saver("idle")
    /\ saved = IF config_file = "complete" THEN "stored" ELSE "nothing"
    /\ ManagerIdle
    /\ PoolsIdle

\* load_config: if os.path.exists(self.config_file)
ConfigExists(t) ==
    /\ loader[t].at = "start"
    /\ loader' = [loader EXCEPT ![t].at =
                      IF config_file = "missing" THEN "defaults" ELSE "open"]
    /\ UNCHANGED <<pipeline, raw_text, parsed, config_file, saver, saved, manager, pools>>

\* load_config: open(..., 'r') and json.load; a file that is not complete
\* JSON raises and the handler calls load_default_fields.
ConfigLoad(t) ==
    /\ loader[t].at = "open"
    /\ loader' = [loader EXCEPT ![t] =
                      IF config_file = "complete"
                      THEN [@ EXCEPT !.at = "built", !.fields = saved]
                      ELSE [@ EXCEPT !.at = "defaults"]]
    /\ UNCHANGED <<pipeline, raw_text, parsed, config_file, saver, saved, manager, pools>>

\* load_default_fields, then save_config: open(..., 'w') truncates the file.
ConfigOpenForWrite(t) ==
    /\ loader[t].at = "defaults"
    /\ loader' = [loader EXCEPT ![t].at = "writing", ![t].alone = TRUE]
    /\ config_file' = "partial"
    /\ UNCHANGED <<pipeline, raw_text, parsed, saver, saved, manager, pools>>

\* Another manager has the file open for writing.
OtherWriter(t) ==
    \/ \E u \in Indices(loader) : u # t /\ loader[u].at = "writing"
    \/ t # 0 /\ saver.at = "writing"

\* What the file is after a writer closed it: its own text when no other
\* writer has the file open and none wrote since it opened the file; else its
\* own text or a mix of the texts, as the writes fell.
AfterDump(t, alone) == IF OtherWriter(t) \/ ~alone THEN {"partial", "complete"} ELSE {"complete"}

\* The writers that still have the file open are no longer alone.
Crossed(t) ==
    [u \in Indices(loader) |->
        IF u # t /\ loader[u].at = "writing" THEN [loader[u] EXCEPT !.alone = FALSE]
        ELSE loader[u]]

\* save_config: json.dump and close.
ConfigDump(t) ==
    /\ loader[t].at = "writing"
    /\ loader' = [Crossed(t) EXCEPT ![t] = [@ EXCEPT !.at = "built", !.fields = "defaults"]]
    /\ saver' = IF saver.at = "writing" THEN [saver EXCEPT !.alone = FALSE] ELSE saver
    /\ config_file' \in AfterDump(t, loader[t].alone)
    /\ saved' = IF config_file' = "complete" THEN "defaults" ELSE "nothing"
    /\ UNCHANGED <<pipeline, raw_text, parsed, manager, pools>>

\* The task goes on to verify_financial_extraction, which constructs again.
ConfigNextStage(t) ==
    /\ loader[t].stage = "ocr"
    /\ loader[t].at = "built"
    /\ loader' = [loader EXCEPT ![t] = Building("verify")]
    /\ UNCHANGED <<pipeline, raw_text, parsed, config_file, saver, saved, manager, pools>>

\* The configuration page changes a field while the tasks run: add_field on
\* the module's manager calls save_config, which opens the file for writing.
SaverOpen ==
    /\ saver.at = "idle"
    /\ config_file = "complete"
    /\ saved = "stored"
    /\ saver' = Saver("writing")
    /\ config_file' = "partial"
    /\ UNCHANGED <<pipeline, raw_text, parsed, loader, saved, manager, pools>>

\* save_config of the module's manager: json.dump and close.
SaverDump ==
    /\ saver.at = "writing"
    /\ saver' = Saver("done")
    /\ loader' = Crossed(0)
    /\ config_file' \in AfterDump(0, saver.alone)
    /\ saved' = IF config_file' = "complete" THEN "stored" ELSE "nothing"
    /\ UNCHANGED <<pipeline, raw_text, parsed, manager, pools>>

NextConfig ==
    \/ \E t \in Indices(loader) : ConfigExists(t)
    \/ \E t \in Indices(loader) : ConfigLoad(t)
    \/ \E t \in Indices(loader) : ConfigOpenForWrite(t)
    \/ \E t \in Indices(loader) : ConfigDump(t)
    \/ \E t \in Indices(loader) : ConfigNextStage(t)
    \/ SaverOpen
    \/ SaverDump

SpecConfig == InitConfig /\ [][NextConfig]_vars

\* ------------------------------------------ field_manager.py: the schema
\* A FieldDefinition. label and description are texts the methods only copy
\* into the prompts next to the name; the model leaves them out.
FieldDefinition(name, data_type, required, default_value, validation_rules, extraction_hints) ==
    [name |-> name, data_type |-> data_type, required |-> required,
     default_value |-> default_value, validation_rules |-> validation_rules,
     extraction_hints |-> extraction_hints]

\* validation_rules = {}
NoRules == <<>>

\* json.dump of a value of a rule map, and json.load of what it wrote.
JsonOf(v) ==
    [json |-> CASE v.k = "str" -> "string" [] v.k = "num" -> "number" [] OTHER -> "null",
     s |-> v.s, n |-> v.n]
ValueOf(j) ==
    CASE j.json = "string" -> Str(j.s)
      [] j.json = "number" -> Num(j.n)
      [] OTHER -> Null

RulesToJson(rules) == [key \in DOMAIN rules |-> JsonOf(rules[key])]
RulesFromJson(object) == [key \in DOMAIN object |-> ValueOf(object[key])]

\* The keys of a field's JSON object.
FieldKeys ==
    {"name", "data_type", "required", "default_value", "validation_rules", "extraction_hints"}

\* asdict(field) as json.dump writes it: the keys it has and their values.
asdict(field) ==
    [has |-> FieldKeys,
     val |-> [field EXCEPT !.validation_rules = RulesToJson(field.validation_rules)]]

\* FieldDefinition(**field_data) raises on an object without a key that has
\* no default.
Loadable(field_data) == {"name", "data_type"} \subseteq field_data.has

\* Mutant: the rule map of the file is not read.
FieldFromData_NoRules(field_data, defaults) ==
    LET get(key) == IF key \in field_data.has THEN field_data.val[key] ELSE defaults[key]
    IN  FieldDefinition(get("name"), get("data_type"), get("required"),
                        get("default_value"), NoRules, get("extraction_hints"))

\* The field built from a JSON object, with `defaults` for the keys it lacks:
\* FieldDefinition(**field_data) in load_config, and the field_data.get(...)
\* calls of import_config.
FieldFromData(field_data, defaults) ==
    LET get(key) == IF key \in field_data.has THEN field_data.val[key] ELSE defaults[key]
    IN  FieldDefinition(get("name"), get("data_type"), get("required"),
                        get("default_value"),
                        IF "validation_rules" \in field_data.has
                        THEN RulesFromJson(field_data.val.validation_rules)
                        ELSE NoRules,
                        get("extraction_hints"))

\* The defaults of the dataclass, and those of import_config.
DataclassDefaults == FieldDefinition("", "", FALSE, "", NoRules, "")
ImportDefaults == FieldDefinition("", "text", FALSE, "", NoRules, "")

\* ---- ordered dicts, as lists of [key, val]
HasKey(dict, key) == \E i \in Indices(dict) : dict[i].key = key
KeysOf(dict) == {dict[i].key : i \in Indices(dict)}
Lookup(dict, key) == dict[CHOOSE i \in Indices(dict) : dict[i].key = key].val

\* dict[key] = val
DictSet(dict, key, val) ==
    IF HasKey(dict, key)
    THEN [i \in Indices(dict) |-> IF dict[i].key = key THEN [key |-> key, val |-> val] ELSE dict[i]]
    ELSE Append(dict, [key |-> key, val |-> val])

\* del dict[key]
DictDel(dict, key) == SelectSeq(dict, LAMBDA e : e.key # key)

\* list.remove(x): the first occurrence goes.
RECURSIVE RemoveFirst(_, _)
RemoveFirst(list, x) ==
    IF list = <<>> THEN <<>>
    ELSE IF Head(list) = x THEN Tail(list)
    ELSE <<Head(list)>> \o RemoveFirst(Tail(list), x)

Contains(list, x) == \E i \in Indices(list) : list[i] = x

\* ---- the methods of FieldConfigManager
\* What a manager holds.
Manager(f, p) == [fields |-> f, presets |-> p]

\* add_field: self.fields[field.name] = field
add_field(m, field) == Manager(DictSet(m.fields, field.name, field), m.presets)

\* remove_field: del self.fields[field_name], then preset_fields.remove for
\* every preset that lists the name.
remove_field(m, field_name) ==
    IF HasKey(m.fields, field_name)
    THEN Manager(DictDel(m.fields, field_name),
                 [i \in Indices(m.presets) |->
                     [key |-> m.presets[i].key,
                      val |-> IF Contains(m.presets[i].val, field_name)
                              THEN RemoveFirst(m.presets[i].val, field_name)
                              ELSE m.presets[i].val]])
    ELSE m

\* add_preset: the names that are configured fields, in the order given.
add_preset(m, name, field_names) ==
    Manager(m.fields,
            DictSet(m.presets, name,
                    SelectSeq(field_names, LAMBDA n : HasKey(m.fields, n))))

\* remove_preset
remove_preset(m, name) == Manager(m.fields, DictDel(m.presets, name))

\* save_config: the JSON document written to the file.
save_config(m) ==
    [hasFields |-> TRUE,
     fields |-> [i \in Indices(m.fields) |-> asdict(m.fields[i].val)],
     hasPresets |-> TRUE,
     presets |-> m.presets]

\* The fields load_config and import_config build from a list of objects,
\* each stored under its name.
RECURSIVE AddAll(_, _, _)
AddAll(m, objects, defaults) ==
    IF objects = <<>> THEN m
    ELSE AddAll(add_field(m, FieldFromData(Head(objects), defaults)), Tail(objects), defaults)

RECURSIVE AddPresets(_, _)
AddPresets(m, entries) ==
    IF entries = <<>> THEN m
    ELSE AddPresets(add_preset(m, Head(entries).key, Head(entries).val), Tail(entries))

\* ---- the default configuration: a field of each kind load_default_fields
\* configures (required with a format, required with a minimum, optional with
\* a default) and presets over them.
InvoiceDate ==
    FieldDefinition("invoice_date", "date", TRUE, "", "format" :> Str("DD-MM-YYYY"),
                    "Convert any date format to DD-MM-YYYY")
TotalAmount ==
    FieldDefinition("total_invoice_amount", "currency", TRUE, "", "min_value" :> Num(0),
                    "Final total amount, cannot be zero or empty")
Currency ==
    FieldDefinition("currency", "text", FALSE, "PKR", NoRules, "If not found, default to PKR")

load_default_fields ==
    LET f == add_field(add_field(add_field(Manager(<<>>, <<>>), InvoiceDate), TotalAmount), Currency).fields
    IN  Manager(f,
                << [key |-> "Commercial Invoice", val |-> <<"invoice_date", "total_invoice_amount">>],
                   [key |-> "Full Pakistani Invoice", val |-> [i \in Indices(f) |-> f[i].key]] >>)

\* load_config on a file that holds `document`: the fields under their names
\* and the presets as they are; the defaults when an object cannot be built.
load_config(document) ==
    IF \E i \in Indices(document.fields) : ~Loadable(document.fields[i])
    THEN load_default_fields
    ELSE Manager(AddAll(Manager(<<>>, <<>>), document.fields, DataclassDefaults).fields,
                 document.presets)

\* import_config(config_data, replace)
import_config(m, config_data, replace) ==
    LET start == IF replace THEN Manager(<<>>, <<>>) ELSE m
        withFields == IF config_data.hasFields
                      THEN AddAll(start, config_data.fields, ImportDefaults)
                      ELSE start
    IN  IF config_data.hasPresets
        THEN AddPresets(withFields, config_data.presets)
        ELSE withFields

\* The export of the configuration page: every field's keys and the presets.
export_config(m) ==
    [hasFields |-> TRUE,
     fields |-> [i \in Indices(m.fields) |->
                    [has |-> FieldKeys,
                     val |-> [m.fields[i].val EXCEPT
                                 !.validation_rules = RulesToJson(m.fields[i].val.validation_rules)]]],
     hasPresets |-> TRUE,
     presets |-> m.presets]

\* ---- the active fields and the prompts
\* field_names = None, or a list of names.
Omitted == [given |-> FALSE, names |-> <<>>]
Selected(names) == [given |-> TRUE, names |-> names]

\* Mutant: the configured fields that are selected, in configuration order.
get_active_fields_ConfigOrder(m, selection) ==
    IF ~selection.given THEN m.fields
    ELSE SelectSeq(m.fields, LAMBDA e : Contains(selection.names, e.key))

\* {name: self.fields[name] for name in field_names if name in self.fields}
RECURSIVE Pick(_, _, _)
Pick(m, names, picked) ==
    IF names = <<>> THEN picked
    ELSE Pick(m, Tail(names),
              IF HasKey(m.fields, Head(names))
              THEN DictSet(picked, Head(names), Lookup(m.fields, Head(names)))
              ELSE picked)

\* get_active_fields
get_active_fields(m, selection) ==
    IF ~selection.given THEN m.fields ELSE Pick(m, selection.names, <<>>)

\* A line of a prompt: the field it is about, what it says, and the value it
\* quotes.
Line(name, says, quotes) == [name |-> name, says |-> says, quotes |-> quotes]

\* A prompt: its lines and whether it ends with the closing directive; ""
\* has neither.
Prompt(lines, closing) == [lines |-> lines, closing |-> closing]
EmptyText == Prompt(<<>>, FALSE)

HasRule(field, key) == key \in DOMAIN field.validation_rules

\* The numbered entry of a field in the extraction prompt, part by part.
ExtractionEntry(field) ==
    <<Line(field.name, "field", Null)>>
    \o (IF field.required THEN <<Line(field.name, "REQUIRED", Null)>> ELSE <<>>)
    \o (IF field.default_value # ""
        THEN <<Line(field.name, "defaults to", Str(field.default_value))>> ELSE <<>>)
    \o (IF field.data_type = "date" /\ HasRule(field, "format")
        THEN <<Line(field.name, "format", field.validation_rules["format"])>>
        ELSE IF field.data_type = "array" /\ HasRule(field, "item_type")
        THEN <<Line(field.name, "array of", field.validation_rules["item_type"])>>
        ELSE <<>>)

\* The guard rails of a field in the extraction prompt.
ExtractionRails(field) ==
    (IF field.extraction_hints # ""
     THEN <<Line(field.name, "hint", Str(field.extraction_hints))>> ELSE <<>>)
    \o (IF HasRule(field, "min_value")
        THEN <<Line(field.name, "cannot be empty or zero", Null)>> ELSE <<>>)
    \o (IF HasRule(field, "format")
        THEN <<Line(field.name, "must be in format", field.validation_rules["format"])>>
        ELSE <<>>)

\* generate_extraction_prompt: "" without an active field.
generate_extraction_prompt(m, selection) ==
    LET active_fields == get_active_fields(m, selection)
    IN  IF active_fields = <<>> THEN EmptyText
        ELSE Prompt(Flatten([i \in Indices(active_fields) |->
                                ExtractionEntry(active_fields[i].val)])
                    \o Flatten([i \in Indices(active_fields) |->
                                   ExtractionRails(active_fields[i].val)]),
                    TRUE)

\* The validation rules of a field in the verification prompt.
VerificationRules(field) ==
    (IF field.required THEN <<Line(field.name, "cannot be empty", Null)>> ELSE <<>>)
    \o (IF field.default_value # ""
        THEN <<Line(field.name, "defaults to", Str(field.default_value))>> ELSE <<>>)
    \o (IF field.extraction_hints # ""
        THEN <<Line(field.name, "hint", Str(field.extraction_hints))>> ELSE <<>>)
    \o (IF HasRule(field, "format")
        THEN <<Line(field.name, "format", field.validation_rules["format"])>> ELSE <<>>)
    \o (IF HasRule(field, "min_value")
        THEN <<Line(field.name, "cannot be zero or negative", Null)>> ELSE <<>>)
    \o (IF field.data_type = "array" /\ HasRule(field, "item_type")
        THEN <<Line(field.name, "array of", field.validation_rules["item_type"])>>
        ELSE <<>>)

\* generate_verification_prompt
generate_verification_prompt(m, selection) ==
    LET active_fields == get_active_fields(m, selection)
    IN  Prompt(Flatten([i \in Indices(active_fields) |->
                           VerificationRules(active_fields[i].val)]),
               TRUE)

\* ---- a manager in use
\* The fields the configuration page adds: one with nothing but its name and
\* type, an array, a number, and the date field with another format.
Notes == FieldDefinition("notes", "text", FALSE, "", NoRules, "")
PoNumbers ==
    FieldDefinition("po_numbers", "array", FALSE, "", "item_type" :> Str("number"),
                    "Purchase order numbers")
Weight == FieldDefinition("weight", "number", FALSE, "", "min_value" :> Num(1), "")
InvoiceDateIso ==
    FieldDefinition("invoice_date", "date", TRUE, "", "format" :> Str("YYYY-MM-DD"),
                    "Convert any date format to DD-MM-YYYY")
NewFields == {Notes, PoNumbers, Weight, InvoiceDateIso}

FieldNames == {"invoice_date", "total_invoice_amount", "currency", "notes", "po_numbers", "weight"}
PresetNames == {"Commercial Invoice", "Mine"}

\* The lists of names a preset is made from: chosen on the page, or read from
\* an imported file, where a name may repeat or be unknown.
NameLists ==
    { <<"currency", "invoice_date">>,
      <<"notes", "ghost">>,
      <<"currency", "currency">> }

\* Imported files other than an export: a field given by its name alone, and
\* presets alone.
NameOnly ==
    [has |-> {"name"}, val |-> [ImportDefaults EXCEPT !.name = "notes"]]
Imports ==
    { [hasFields |-> TRUE, fields |-> <<NameOnly>>,
       hasPresets |-> TRUE, presets |-> <<[key |-> "Mine", val |-> <<"notes", "notes", "ghost">>]>>],
      [hasFields |-> FALSE, fields |-> <<>>,
       hasPresets |-> TRUE, presets |-> <<[key |-> "Mine", val |-> <<"currency", "currency">>]>>] }

Selections ==
    { Omitted,
      Selected(<<>>),
      Selected(<<"ghost">>),
      Selected(<<"notes">>),
      Selected(<<"currency", "ghost", "invoice_date", "currency">>) }

\* The module's manager, built where no file exists.
InitManager ==
    /\ PipelineIdle
    /\ raw_text = NoText
    /\ parsed = NotCalled
    /\ ConfigIdle
    /\ PoolsIdle
    /\ fields = load_default_fields.fields
    /\ presets = load_default_fields.presets
    /\ stored = <<save_config(load_default_fields)>>
    /\ answer = NoAnswer

Self == Manager(fields, presets)
Fits(m) == Len(m.fields) <= MaxFields /\ Len(m.presets) <= MaxPresets
Did(op) == [op |-> op, selection |-> <<>>, result |-> <<>>]

\* A method that changes the manager and saves it.
Becomes(m, op) ==
    /\ Fits(m)
    /\ fields' = m.fields
    /\ presets' = m.presets
    /\ stored' = <<save_config(m)>>
    /\ answer' = Did(op)
    /\ UNCHANGED <<pipeline, raw_text, parsed, config_file, loader, saver, saved, pools>>

AddField == \E field \in NewFields : Becomes(add_field(Self, field), "add_field")

\* remove_field saves only when it removed the field.
RemoveField ==
    \E field_name \in FieldNames :
        /\ HasKey(fields, field_name)
        /\ Becomes(remove_field(Self, field_name), "remove_field")

AddPreset ==
    \E name \in PresetNames, field_names \in NameLists :
        Becomes(add_preset(Self, name, field_names), "add_preset")

RemovePreset ==
    \E name \in PresetNames :
        /\ HasKey(presets, name)
        /\ Becomes(remove_preset(Self, name), "remove_preset")

ImportConfig ==
    \E config_data \in Imports \cup {export_config(Self)}, replace \in BOOLEAN :
        Becomes(import_config(Self, config_data, replace), "import_config")

\* A new manager is constructed on the file the last one saved.
Reload ==
    /\ stored # <<>>
    /\ fields' = load_config(stored[1]).fields
    /\ presets' = load_config(stored[1]).presets
    /\ answer' = Did("load_config")
    /\ UNCHANGED <<pipeline, raw_text, parsed, config_file, loader, saver, saved, pools, stored>>

\* A method that only reads the manager.
Asks(op, selection, result) ==
    /\ answer' = [op |-> op, selection |-> selection, result |-> result]
    /\ UNCHANGED <<pipeline, raw_text, parsed, config_file, loader, saver, saved, pools,
                   fields, presets, stored>>

GetActiveFields ==
    \E selection \in Selections :
        Asks("get_active_fields", selection, get_active_fields(Self, selection))

ExtractionPrompt ==
    \E selection \in Selections :
        Asks("generate_extraction_prompt", selection,
             generate_extraction_prompt(Self, selection))

VerificationPrompt ==
    \E selection \in Selections :
        Asks("generate_verification_prompt", selection,
             generate_verification_prompt(Self, selection))

NextManager ==
    \/ AddField
    \/ RemoveField
    \/ AddPreset
    \/ RemovePreset
    \/ ImportConfig
    \/ Reload
    \/ GetActiveFields
    \/ ExtractionPrompt
    \/ VerificationPrompt

SpecManager == InitManager /\ [][NextManager]_vars

\* ------------------------------------------------------ the worker pools
\* process_invoices_as_docs as its threads run it: the grouping loop, which
\* rasterises one PDF after the other, the pool of document tasks, and inside
\* each document task the pool of each stage, one after the other. Every pool
\* is a ThreadPoolExecutor() of its own with PoolSize workers, which take the
\* submitted tasks in order. Every uploaded path has a stem of its own here,
\* so each is a document; what the calls answer is left to the numbers of
\* records a stage hands on.
StageNames == {"ocr", "verify", "enrich"}

\* An uploaded path: an image, or a PDF with the pages it will give (none, or
\* more than a pool has workers).
PoolInputs ==
    {[pdf |-> FALSE, pages |-> 1, at |-> "file"]}
        \cup {[pdf |-> TRUE, pages |-> n, at |-> "file"] : n \in {0, MaxCalls}}

\* The numbers of records the pages of a document may give together.
RecordCounts(pages) == IF pages = 0 THEN {0} ELSE {0, 1, MaxCalls}

NoCalls == [ocr |-> <<>>, verify |-> <<>>, enrich |-> <<>>]

InitPool ==
    /\ PipelineIdle
    /\ raw_text = NoText
    /\ parsed = NotCalled
    /\ ConfigIdle
    /\ ManagerIdle
    /\ run = [pc |-> "group", gi |-> 1, raster |-> "idle"]
    /\ job \in UNION {[1..n -> PoolInputs] : n \in 0..MaxJobs}
    /\ call = [d \in Indices(job) |-> NoCalls]

Jobs == Indices(job)

\* The calls of the stage the document task is in.
Current(d) == IF job[d].at \in StageNames THEN call[d][job[d].at] ELSE <<>>
Flying(d) == {k \in Indices(Current(d)) : Current(d)[k] = "flying"}
Running == {d \in Jobs : job[d].at \in StageNames}

\* The AI calls that have been made and have not yet returned or raised.
InFlight == {<<d, k>> \in Jobs \X (1..MaxCalls) : k \in Flying(d)}

\* The grouping loop calls batch_convert_pdfs_to_images for a PDF.
RasterStart ==
    /\ run.pc = "group"
    /\ run.gi <= Len(job)
    /\ job[run.gi].pdf
    /\ run.raster = "idle"
    /\ run' = [run EXCEPT !.raster = "running"]
    /\ UNCHANGED <<pipeline, raw_text, parsed, config_file, loader, saver, saved, manager,
                   job, call>>

\* The conversion returns, with pages or without, and the loop goes on.
RasterEnd ==
    /\ run.pc = "group"
    /\ run.raster = "running"
    /\ run' = [run EXCEPT !.raster = "idle", !.gi = @ + 1]
    /\ job' = [job EXCEPT ![run.gi].at = "queued"]
    /\ UNCHANGED <<pipeline, raw_text, parsed, config_file, loader, saver, saved, manager, call>>

\* The grouping loop takes an image as a page.
GroupImage ==
    /\ run.pc = "group"
    /\ run.gi <= Len(job)
    /\ ~job[run.gi].pdf
    /\ run' = [run EXCEPT !.gi = @ + 1]
    /\ job' = [job EXCEPT ![run.gi].at = "queued"]
    /\ UNCHANGED <<pipeline, raw_text, parsed, config_file, loader, saver, saved, manager, call>>

\* exe.map(process_doc, doc_to_pages.items()) submits every document.
PoolDispatch ==
    /\ run.pc = "group"
    /\ run.gi > Len(job)
    /\ run' = [run EXCEPT !.pc = "dispatch"]
    /\ UNCHANGED <<pipeline, raw_text, parsed, config_file, loader, saver, saved, manager,
                   job, call>>

\* A worker of the document pool is free.
FreeDocWorker == Cardinality(Running) < PoolSize

\* Mutant: the stage pool starts every call it is given at once.
FreeWorker_Unbounded(d) == TRUE

\* Mutant: the calls are submitted to the pool the document tasks run in.
FreeWorker_SharedPool(d) == Cardinality(Running) + Cardinality(InFlight) < PoolSize

\* A worker of the pool of document d's stage is free.
FreeWorker(d) == Cardinality(Flying(d)) < PoolSize

\* A worker takes the next document: process_doc enters
\* ocr_financial_document, which submits process for every page.
DocStart(d) ==
    /\ run.pc = "dispatch"
    /\ job[d].at = "queued"
    /\ \A e \in 1..(d - 1) : job[e].at # "queued"
    /\ FreeDocWorker
    /\ job' = [job EXCEPT ![d].at = "ocr"]
    /\ call' = [call EXCEPT ![d].ocr = [p \in 1..job[d].pages |-> "queued"]]
    /\ UNCHANGED <<pipeline, raw_text, parsed, config_file, loader, saver, saved, manager, run>>

\* A worker of the stage's pool takes the next call and makes it.
CallStart(d, k) ==
    /\ job[d].at \in StageNames
    /\ Current(d)[k] = "queued"
    /\ \A j \in 1..(k - 1) : Current(d)[j] # "queued"
    /\ FreeWorker(d)
    /\ call' = [call EXCEPT ![d][job[d].at][k] = "flying"]
    /\ UNCHANGED <<pipeline, raw_text, parsed, config_file, loader, saver, saved, manager,
                   run, job>>

\* The call returns or raises.
CallEnd(d, k) ==
    /\ job[d].at \in StageNames
    /\ Current(d)[k] = "flying"
    /\ call' = [call EXCEPT ![d][job[d].at][k] = "done"]
    /\ UNCHANGED <<pipeline, raw_text, parsed, config_file, loader, saver, saved, manager,
                   run, job>>

\* Mutant: the with block is left when the first result is there.
StageOver_FirstResult(d) ==
    Current(d) = <<>> \/ \E k \in Indices(Current(d)) : Current(d)[k] = "done"

\* The with block of the stage ends: every task of its pool has finished.
StageOver(d) == \A k \in Indices(Current(d)) : Current(d)[k] = "done"

\* ocr_financial_document returns the records the pages gave, and
\* verify_financial_extraction submits process for every record.
OcrDone(d) ==
    /\ job[d].at = "ocr"
    /\ StageOver(d)
    /\ \E n \in RecordCounts(job[d].pages) :
          call' = [call EXCEPT ![d].verify = [k \in 1..n |-> "queued"]]
    /\ job' = [job EXCEPT ![d].at = "verify"]
    /\ UNCHANGED <<pipeline, raw_text, parsed, config_file, loader, saver, saved, manager, run>>

\* verify_financial_extraction returns as many records as it was given, and
\* enrich_with_other_options submits work for every record, or for none when
\* it finds no key.
VerifyDone(d) ==
    /\ job[d].at = "verify"
    /\ StageOver(d)
    /\ \E n \in {0, Len(call[d].verify)} :
          call' = [call EXCEPT ![d].enrich = [k \in 1..n |-> "queued"]]
    /\ job' = [job EXCEPT ![d].at = "enrich"]
    /\ UNCHANGED <<pipeline, raw_text, parsed, config_file, loader, saver, saved, manager, run>>

\* enrich_with_other_options returns and process_doc with it.
EnrichDone(d) ==
    /\ job[d].at = "enrich"
    /\ StageOver(d)
    /\ job' = [job EXCEPT ![d].at = "done"]
    /\ UNCHANGED <<pipeline, raw_text, parsed, config_file, loader, saver, saved, manager,
                   run, call>>

\* The with block of the document pool ends and the function returns.
PoolReturn ==
    /\ run.pc = "dispatch"
    /\ \A d \in Jobs : job[d].at = "done"
    /\ run' = [run EXCEPT !.pc = "returned"]
    /\ UNCHANGED <<pipeline, raw_text, parsed, config_file, loader, saver, saved, manager,
                   job, call>>

NextPool ==
    \/ RasterStart
    \/ RasterEnd
    \/ GroupImage
    \/ PoolDispatch
    \/ \E d \in Jobs : DocStart(d)
    \/ \E d \in Jobs : \E k \in 1..MaxCalls : k <= Len(Current(d)) /\ CallStart(d, k)
    \/ \E d \in Jobs : \E k \in 1..MaxCalls : k <= Len(Current(d)) /\ CallEnd(d, k)
    \/ \E d \in Jobs : OcrDone(d)
    \/ \E d \in Jobs : VerifyDone(d)
    \/ \E d \in Jobs : EnrichDone(d)
    \/ PoolReturn

SpecPool == InitPool /\ [][NextPool]_vars

\* Every rasterisation and every call returns or raises in the end, and a
\* thread that can run does.
SpecPoolLive == SpecPool /\ WF_vars(NextPool)

\* ================================================================ claims
StemOf(d) == doc_to_pages[d].stem
PagesOf(d) == doc_to_pages[d].pages

\* The records of a list that carry the document's stem.
WithStem(list, stem) == {i \in Indices(list) : list[i].f["__doc_stem"] = stem}

\* Some page of the document gave the extraction stage a record.
ExtractedAny(d) == \E p \in Indices(ocrSlot[d]) : ocrSlot[d][p].val # <<>>

\* C1: when process_invoices_as_docs returns, its list holds exactly one
\* record for every document of which some page's extraction produced a
\* record, none for a document without one, and no record of any other stem.
C1_OneRecordPerExtractedDocument ==
    pc = "returned" =>
        /\ \A d \in Docs :
              Cardinality(WithStem(filtered, StemOf(d))) = IF ExtractedAny(d) THEN 1 ELSE 0
        /\ \A i \in Indices(filtered) :
              \E d \in Docs : filtered[i].f["__doc_stem"] = StemOf(d)

\* A run that extracted several records of one document, none of another,
\* and returned a single record.
C1_Witness ==
    /\ pc = "returned"
    /\ Len(filtered) = 1
    /\ \E d \in Docs : Len(extracted[d]) >= 2
    /\ \E d \in Docs : PagesOf(d) # <<>> /\ extracted[d] = <<>>

\* Every call of the run raised.
EveryCallRaised ==
    \A d \in Tasks :
        /\ \A p \in Indices(ocrSlot[d]) : ocrSlot[d][p].resp.kind \in {"raise", "pending"}
        /\ \A k \in Indices(verSlot[d]) : verSlot[d][k].resp.kind \in {"raise", "pending"}
        /\ \A k \in Indices(enrResp[d]) : enrResp[d][k].kind \in {"raise", "pending"}

\* C2: no exception leaves process_invoices_as_docs, and the list it returns
\* is empty when every AI call of the run raised.
C2_NoExceptionEscapes ==
    /\ pc # "raised"
    /\ (pc = "returned" /\ EveryCallRaised) => filtered = <<>>

\* A run over two documents, one of several pages, whose calls all raised.
C2_Witness ==
    /\ pc = "returned"
    /\ Len(doc_to_pages) = 2
    /\ \E d \in Docs : Len(PagesOf(d)) >= 2
    /\ \A d \in Docs : \A p \in Indices(ocrSlot[d]) : ocrSlot[d][p].resp.kind = "raise"
    /\ filtered = <<>>

\* What one document's pipeline returns, computed from its own pages and the
\* answers its own calls were given, and from nothing else.
AloneExtracted(d) ==
    Flatten([p \in Indices(PagesOf(d)) |-> ocr_process(PagesOf(d)[p], ocrSlot[d][p].resp).val])
AloneVerified(d) ==
    LET e == AloneExtracted(d)
    IN  verify_join(e, [k \in Indices(e) |-> verify_process(e[k], verSlot[d][k].resp)])
AloneEnriched(d) ==
    LET v == AloneVerified(d)
    IN  IF api_key = "" THEN v ELSE [k \in Indices(v) |-> work(v[k], enrResp[d][k])]
AloneDoc(d) == TagDoc(StemOf(d), AloneEnriched(d))

RECURSIVE Survivors(_)
Survivors(d) ==
    IF d > Len(doc_to_pages) THEN <<>>
    ELSE (IF dpc[d] = "aborted" THEN <<>> ELSE <<d>>) \o Survivors(d + 1)

\* C3: when process_doc's handler ended a document's pipeline, the returned
\* list holds no record of that document and is the list a run over the
\* other documents alone returns for the same answers.
C3_FailureIsolatedToDocument ==
    pc = "returned" =>
        /\ \A d \in Docs : dpc[d] = "aborted" => WithStem(filtered, StemOf(d)) = {}
        /\ filtered = Filter(Flatten([i \in Indices(Survivors(1)) |->
                                        AloneDoc(Survivors(1)[i])]), {})

\* A run in which one document failed after its extraction had produced a
\* record, and another document's record was returned.
C3_Witness ==
    /\ pc = "returned"
    /\ \E d \in Docs : dpc[d] = "aborted" /\ extracted[d] # <<>>
    /\ \E d \in Docs : dpc[d] = "done" /\ WithStem(filtered, StemOf(d)) # {}

\* The stage functions of document d have returned.
OcrReturned(d) == dpc[d] \in {"verify", "enrich", "done"}
VerifyReturned(d) == dpc[d] \in {"enrich", "done"}
EnrichReturned(d) == dpc[d] = "done"

\* The verification call for record k raised, or its text parsed to nothing.
VerifyGotNothing(d, k) ==
    \/ verSlot[d][k].resp.kind = "raise"
    \/ verSlot[d][k].resp.kind = "text" /\ extract_json(verSlot[d][k].resp.json) = <<>>

\* The verification call for record k answered with a record.
VerifyGotRecord(d, k) ==
    /\ verSlot[d][k].resp.kind = "text"
    /\ extract_json(verSlot[d][k].resp.json) # <<>>
    /\ extract_json(verSlot[d][k].resp.json)[1].isObj

\* The record the answer to record k holds, tagged with the record's page.
AnsweredRecord(d, k) ==
    SetKey(extract_json(verSlot[d][k].resp.json)[1].obj,
           "__image_path", extracted[d][k].f["__image_path"])

\* C4: a record whose verification call raised, or whose response parsed to
\* no record, is returned by verify_financial_extraction equal to the
\* extracted record, key by key and value by value.
C4_VerifyFallsBackToInput ==
    \A d \in Tasks : VerifyReturned(d) =>
        \A k \in Indices(extracted[d]) :
            VerifyGotNothing(d, k) => verified[d][k] = extracted[d][k]

\* The verification of one record raised while another record of the same
\* call came back changed.
C4_Witness ==
    \E d \in Tasks :
        /\ VerifyReturned(d)
        /\ \E k \in Indices(extracted[d]) : verSlot[d][k].resp.kind = "raise"
        /\ \E k \in Indices(extracted[d]) : verified[d][k] # extracted[d][k]

\* C5: whatever goes wrong with one record's verification, every record of
\* the same call whose call answered with a record is returned with the
\* answer's values.
C5_OtherRecordsKeepCorrections ==
    \A d \in Tasks : VerifyReturned(d) =>
        \A k \in Indices(extracted[d]) :
            VerifyGotRecord(d, k) => verified[d][k] = AnsweredRecord(d, k)

\* C6: verify_financial_extraction returns as many records as it was given,
\* and the record at each position is the input at that position or the
\* answer to it, with the input's page.
C6_VerifyOneToOne ==
    \A d \in Tasks : VerifyReturned(d) =>
        /\ Len(verified[d]) = Len(extracted[d])
        /\ \A k \in Indices(extracted[d]) :
              /\ verified[d][k].f["__image_path"] = extracted[d][k].f["__image_path"]
              /\ \/ verified[d][k] = extracted[d][k]
                 \/ VerifyGotRecord(d, k) /\ verified[d][k] = AnsweredRecord(d, k)

\* A call over two different records, one verified and one not.
C6_Witness ==
    \E d \in Tasks :
        /\ VerifyReturned(d)
        /\ Len(extracted[d]) = 2
        /\ extracted[d][1] # extracted[d][2]
        /\ verified[d][1] = extracted[d][1]
        /\ VerifyGotRecord(d, 2) /\ verified[d][2] = AnsweredRecord(d, 2)
        /\ verified[d][2] # extracted[d][2]

\* The page's call raised, or its text did not parse.
PageFailed(d, p) ==
    \/ ocrSlot[d][p].resp.kind = "raise"
    \/ ocrSlot[d][p].resp.kind = "text" /\ ocrSlot[d][p].resp.json.t = "invalid"

\* The tagged elements of the page's parsed answer when all are dicts.
PageRecords(d, p) ==
    LET items == extract_json(ocrSlot[d][p].resp.json)
    IN  IF \E i \in Indices(items) : ~items[i].isObj THEN <<>>
        ELSE [i \in Indices(items) |-> SetKey(items[i].obj, "__image_path", PagesOf(d)[p])]

\* C7: ocr_financial_document returns, in page order, the records of the
\* pages that did not fail, and nothing for a page that did.
C7_PageFailureIsolated ==
    \A d \in Tasks : OcrReturned(d) =>
        extracted[d] = Flatten([p \in Indices(PagesOf(d)) |->
                                   IF PageFailed(d, p) THEN <<>> ELSE PageRecords(d, p)])

\* A document of which one page failed and another gave a record.
C7_Witness ==
    \E d \in Tasks :
        /\ OcrReturned(d)
        /\ \E p \in Indices(PagesOf(d)) : PageFailed(d, p)
        /\ extracted[d] # <<>>

\* The entries of the object the reasoning call for record k answered with.
ReasonEntries(d, k) ==
    LET details == reasoning_agent(enrResp[d][k])
    IN  IF details = <<>> \/ ~details[1].isObj THEN <<>> ELSE details[1].obj

\* The reasoning call for record k failed: no credential, the call raised,
\* the text was no JSON, or the JSON was not an object of well-formed entries.
ReasonFailed(d, k) ==
    \/ api_key = ""
    \/ enrResp[d][k].kind = "raise"
    \/ reasoning_agent(enrResp[d][k]) = <<>>
    \/ ~reasoning_agent(enrResp[d][k])[1].isObj
    \/ \E i \in Indices(ReasonEntries(d, k)) :
          LET payload == ReasonEntries(d, k)[i].payload
          IN  payload.isDict /\ ~payload.iter

\* C8 as the specification states it: enrich_with_other_options returns as
\* many records as it was given, and a record whose reasoning call failed is
\* returned equal to the input record and without an other_options entry.
C8_FailedRecordHasNoOptions ==
    \A d \in Tasks : EnrichReturned(d) =>
        /\ Len(enriched[d]) = Len(verified[d])
        /\ \A k \in Indices(verified[d]) :
              ReasonFailed(d, k) =>
                  /\ enriched[d][k] = verified[d][k]
                  /\ enriched[d][k].oo = NoOptions

\* C8, amended: enrich_with_other_options returns as many records as it was
\* given, and a record whose reasoning call failed is returned equal to the
\* input record, so that it has an other_options entry only when the input
\* record already had that very entry.
C8_FailedRecordPassesThrough ==
    \A d \in Tasks : EnrichReturned(d) =>
        /\ Len(enriched[d]) = Len(verified[d])
        /\ \A k \in Indices(verified[d]) :
              ReasonFailed(d, k) => enriched[d][k] = verified[d][k]

\* With a credential, the reasoning call of one record raised while another
\* record of the same call was given its other_options.
C8_Witness ==
    \E d \in Tasks :
        /\ EnrichReturned(d)
        /\ api_key # ""
        /\ \E k \in Indices(verified[d]) :
              enrResp[d][k].kind = "raise" /\ enriched[d][k] = verified[d][k]
        /\ \E k \in Indices(verified[d]) : enriched[d][k] # verified[d][k]

\* C9: enrich_with_other_options returns the records in input order and
\* removes none, and every key a record had before the call, other_options
\* included, has the same value after it.
C9_StrictlyAdditive ==
    \A d \in Tasks : EnrichReturned(d) =>
        /\ Len(enriched[d]) = Len(verified[d])
        /\ \A k \in Indices(verified[d]) :
              /\ enriched[d][k].f = verified[d][k].f
              /\ verified[d][k].oo # NoOptions => enriched[d][k].oo = verified[d][k].oo

\* The different option values the response gave under a key, after pairing.
DistinctOptions(d, k, key) ==
    UNION { {PairsOf(e.payload.options)[i].val : i \in Indices(PairsOf(e.payload.options))} :
            e \in {ReasonEntries(d, k)[i] : i \in {j \in Indices(ReasonEntries(d, k)) :
                       /\ NormalizeKey(ReasonEntries(d, k)[j].label) = key
                       /\ ReasonEntries(d, k)[j].payload.isDict}} }

\* The keys the record's other_options holds.
OptionKeys(rec) == IF rec.oo = NoOptions THEN {} ELSE DOMAIN rec.oo[1]

\* The keys the reasoning response of record k names.
ReasonKeys(d, k) ==
    {NormalizeKey(ReasonEntries(d, k)[i].label) : i \in Indices(ReasonEntries(d, k))}

\* C10: for a record that had no other_options before the call and whose
\* reasoning call did not fail, a field has an entry in other_options after
\* enrich_with_other_options exactly when the response gave the field two or
\* more distinct options after pairing.
C10_EntryIffTwoDistinctOptions ==
    \A d \in Tasks : EnrichReturned(d) =>
        \A k \in Indices(verified[d]) :
            (verified[d][k].oo = NoOptions /\ ~ReasonFailed(d, k)) =>
                \A key \in ReasonKeys(d, k) \cup OptionKeys(enriched[d][k]) :
                    key \in OptionKeys(enriched[d][k])
                        <=> Cardinality(DistinctOptions(d, k, key)) >= 2

\* The score the merge must store for a flat list's element: the number it
\* is or spells, and null for anything else.
FlatScore(item) ==
    IF ~item.isPair /\ item.option.k = "num" THEN item.option
    ELSE IF ~item.isPair /\ item.option.k = "str" /\ item.option.s = "80" THEN Num(80)
    ELSE IF ~item.isPair /\ item.option.k = "str" /\ item.option.s = "20" THEN Num(20)
    ELSE Null

\* pairs is the pairing of raw_opts the specification describes.
IsPairing(pairs, raw_opts) ==
    IF \A i \in Indices(raw_opts) : raw_opts[i].isPair
    THEN /\ Len(pairs) = Len(raw_opts)
         /\ \A i \in Indices(pairs) :
               /\ pairs[i].val = Plain(raw_opts[i].option)
               /\ pairs[i].sc = raw_opts[i].score
    ELSE /\ 2 * Len(pairs) \in {Len(raw_opts), Len(raw_opts) - 1}
         /\ \A i \in Indices(pairs) :
               /\ pairs[i].val = raw_opts[2 * i - 1]
               /\ pairs[i].sc = FlatScore(raw_opts[2 * i])

\* The entries of the response that are dicts whose options can be iterated.
Mergeable(d, k) ==
    {i \in Indices(ReasonEntries(d, k)) :
        ReasonEntries(d, k)[i].payload.isDict /\ ReasonEntries(d, k)[i].payload.iter}

\* C11: every entry enrich_with_other_options stores holds the pairing of
\* the options the response gave under that key (the structured pairs taken
\* as they are, a flat list paired two by two with a score that is no number
\* stored as null), and a flat list of two or more pairs is stored whatever
\* its scores are.
C11_OptionsArePaired ==
    \A d \in Tasks : EnrichReturned(d) =>
        \A k \in Indices(verified[d]) :
            (api_key # "" /\ verified[d][k].oo = NoOptions) =>
                /\ \A key \in OptionKeys(enriched[d][k]) :
                      \E i \in Mergeable(d, k) :
                          /\ NormalizeKey(ReasonEntries(d, k)[i].label) = key
                          /\ IsPairing(enriched[d][k].oo[1][key].options,
                                       ReasonEntries(d, k)[i].payload.options)
                /\ ~ReasonFailed(d, k) =>
                      \A i \in Mergeable(d, k) :
                          Len(ReasonEntries(d, k)[i].payload.options) >= 4 =>
                              NormalizeKey(ReasonEntries(d, k)[i].label)
                                  \in OptionKeys(enriched[d][k])

\* A record whose response gave a flat list with a score that is no number,
\* returned with that field's pairs, the second with a null score.
C11_Witness ==
    \E d \in Tasks :
        /\ EnrichReturned(d)
        /\ api_key # ""
        /\ \E k \in Indices(verified[d]) :
              /\ \E i \in Mergeable(d, k) :
                    ReasonEntries(d, k)[i].payload.options = FlatReadings
              /\ "invoice_number" \in OptionKeys(enriched[d][k])
              /\ Len(enriched[d][k].oo[1]["invoice_number"].options) = 2
              /\ enriched[d][k].oo[1]["invoice_number"].options[1].sc = Num(80)
              /\ enriched[d][k].oo[1]["invoice_number"].options[2].sc = Null

\* The first record of every document that returned one, in document order.
RECURSIVE FirstOfEach(_)
FirstOfEach(d) ==
    IF d > Len(doc_to_pages) THEN <<>>
    ELSE (IF docRet[d].val = <<>> THEN <<>> ELSE <<docRet[d].val[1]>>) \o FirstOfEach(d + 1)

\* The position at which a stem first occurs among the paths grouped so far.
FirstUpload(stem) ==
    CHOOSE i \in Indices(uploaded_paths) :
        /\ uploaded_paths[i].stem = stem
        /\ \A j \in 1..(i - 1) : uploaded_paths[j].stem # stem

\* The first page of the document whose extraction produced a record.
FirstGoodPage(d) ==
    CHOOSE p \in Indices(PagesOf(d)) :
        /\ ocrSlot[d][p].val # <<>>
        /\ \A q \in 1..(p - 1) : ocrSlot[d][q].val = <<>>

C13_ResultIndependentOfSchedule ==
    /\ \A d \in Tasks :
          /\ OcrReturned(d) => extracted[d] = AloneExtracted(d)
          /\ VerifyReturned(d) => verified[d] = AloneVerified(d)
          /\ EnrichReturned(d) => docRet[d] = Returned(AloneDoc(d))
    /\ pc = "returned" =>
          filtered = Filter(Flatten([d \in Docs |-> AloneDoc(d)]), {})

\* A later document has returned its records while an earlier one is still
\* extracting, its second page answered before its first.
C13_Witness ==
    \E d1, d2 \in Tasks :
        /\ d1 < d2
        /\ dpc[d2] = "done" /\ docRet[d2].val # <<>>
        /\ dpc[d1] = "ocr"
        /\ Len(PagesOf(d1)) >= 2
        /\ IsDone(ocrSlot[d1][2].resp) /\ ~IsDone(ocrSlot[d1][1].resp)

\* The stems of the source files and of the returned records.
UploadStems == {uploaded_paths[i].stem : i \in Indices(uploaded_paths)}
ReturnedStems == {filtered[i].f["__doc_stem"] : i \in Indices(filtered)}

\* Every source file gave at least one page, and the extraction call of every
\* page answered with at least one record.
AllExtracted ==
    /\ \A i \in Indices(converted) : converted[i].pages # <<>>
    /\ \A d \in Docs : \A p \in Indices(ocrSlot[d]) : ocrSlot[d][p].val # <<>>

\* C14 as the specification states it: when every file has a page and every
\* extraction call returns a record, process_invoices_as_docs returns as many
\* records as there are source files, and their stems are the files' stems.
C14_OneRecordPerSourceFile ==
    (pc = "returned" /\ AllExtracted) =>
        /\ Len(filtered) = Len(uploaded_paths)
        /\ ReturnedStems = UploadStems

\* C14, amended: when every file has a page and every extraction call
\* returns a record, process_invoices_as_docs returns as many records as the
\* source files have different stems, one for each stem.
C14_OneRecordPerStem ==
    (pc = "returned" /\ AllExtracted) =>
        /\ Len(filtered) = Cardinality(UploadStems)
        /\ ReturnedStems = UploadStems
        /\ \A i, j \in Indices(filtered) :
              filtered[i].f["__doc_stem"] = filtered[j].f["__doc_stem"] => i = j

\* The run of the example: invoice_A.pdf with two pages and invoice_B.jpg,
\* every extraction answered, two records returned.
C14_Witness ==
    /\ pc = "returned"
    /\ AllExtracted
    /\ uploaded_paths = <<[stem |-> "invoice_A", ext |-> "pdf"],
                          [stem |-> "invoice_B", ext |-> "jpg"]>>
    /\ Len(PagesOf(1)) = 2
    /\ Len(filtered) = 2
    /\ ReturnedStems = {"invoice_A", "invoice_B"}

\* The pages of the first n grouped files that have the stem, file after file.
RECURSIVE PagesOfStem(_, _)
PagesOfStem(stem, n) ==
    IF n = 0 THEN <<>>
    ELSE PagesOfStem(stem, n - 1)
            \o (IF uploaded_paths[n].stem = stem THEN converted[n].pages ELSE <<>>)

\* What each grouped file gave: an image itself, a PDF its pages in order.
FilePagesInOrder ==
    \A i \in Indices(converted) :
        IF Lower(uploaded_paths[i].ext) = "pdf"
        THEN \A j \in Indices(converted[i].pages) :
                 converted[i].pages[j] = PageImage(uploaded_paths[i].stem, j)
        ELSE converted[i].pages = <<PathStr(uploaded_paths[i])>>

\* C19 as the specification states it: the grouping step builds one group
\* per source file, an image giving a group of its one page and a PDF a
\* group of its pages in page order.
C19_OneGroupPerSourceFile ==
    /\ FilePagesInOrder
    /\ Len(doc_to_pages) = Len(converted)
    /\ \A i \in Indices(converted) :
          /\ doc_to_pages[i].stem = uploaded_paths[i].stem
          /\ doc_to_pages[i].pages = converted[i].pages

\* C19, amended: the grouping step builds one group per different stem of
\* the source files, in the order in which the stems first occur; a group
\* holds, file after file in input order, the one page of every image and the
\* pages in page order of every PDF of that stem.
C19_OneGroupPerStem ==
    /\ FilePagesInOrder
    /\ {doc_to_pages[d].stem : d \in Docs} =
           {uploaded_paths[i].stem : i \in Indices(converted)}
    /\ \A d1, d2 \in Docs :
          d1 < d2 => /\ doc_to_pages[d1].stem # doc_to_pages[d2].stem
                     /\ FirstUpload(doc_to_pages[d1].stem) < FirstUpload(doc_to_pages[d2].stem)
    /\ \A d \in Docs :
          doc_to_pages[d].pages = PagesOfStem(doc_to_pages[d].stem, Len(converted))

\* Grouping is over: an image and a PDF of two pages share a stem and make
\* one group of three pages.
C19_Witness ==
    /\ pc = "dispatch"
    /\ Len(uploaded_paths) = 2
    /\ Len(doc_to_pages) = 1
    /\ Len(converted[1].pages) = 1 /\ Len(converted[2].pages) = 2
    /\ doc_to_pages[1].pages = converted[1].pages \o converted[2].pages

\* The pages of the first n grouped files of the stem whose reading did not fail.
RECURSIVE PagesOfReadable(_, _)
PagesOfReadable(stem, n) ==
    IF n = 0 THEN <<>>
    ELSE PagesOfReadable(stem, n - 1)
            \o (IF uploaded_paths[n].stem = stem /\ ~converted[n].failed
                THEN converted[n].pages ELSE <<>>)

\* The documents that have a page, in document order.
RECURSIVE WithPages(_)
WithPages(d) ==
    IF d > Len(doc_to_pages) THEN <<>>
    ELSE (IF PagesOf(d) = <<>> THEN <<>> ELSE <<d>>) \o WithPages(d + 1)

\* C20, amended: a PDF whose conversion fails gives an empty page list; the
\* grouping goes on over all paths and every group holds exactly the pages
\* of the files that were converted; a document left without a page yields
\* no record, and the returned list is the one the other documents give.
C20_ConversionFailureIsolated ==
    /\ pc # "group" => /\ Len(converted) = Len(uploaded_paths)
                       /\ Len(dpc) = Len(doc_to_pages)
    /\ \A i \in Indices(converted) : converted[i].failed => converted[i].pages = <<>>
    /\ \A d \in Docs : PagesOf(d) = PagesOfReadable(StemOf(d), Len(converted))
    /\ pc = "returned" =>
          /\ \A d \in Docs : PagesOf(d) = <<>> => WithStem(filtered, StemOf(d)) = {}
          /\ filtered = Filter(Flatten([i \in Indices(WithPages(1)) |->
                                           AloneDoc(WithPages(1)[i])]), {})

\* C20 as the specification states it: a PDF whose conversion fails gives an
\* empty page list, the grouping goes on over all paths with the pages of
\* the other files unchanged, and the document of the failed file yields no
\* record.
C20_FailedFileYieldsNoRecord ==
    /\ pc # "group" => Len(converted) = Len(uploaded_paths)
    /\ \A i \in Indices(converted) : converted[i].failed => converted[i].pages = <<>>
    /\ \A d \in Docs : PagesOf(d) = PagesOfReadable(StemOf(d), Len(converted))
    /\ pc = "returned" =>
          \A i \in Indices(converted) :
              converted[i].failed => WithStem(filtered, uploaded_paths[i].stem) = {}

\* The conversion of the first file failed, and the record of the second
\* file's document was returned.
C20_Witness ==
    /\ pc = "returned"
    /\ Len(converted) = 2
    /\ converted[1].failed
    /\ uploaded_paths[1].stem # uploaded_paths[2].stem
    /\ WithStem(filtered, uploaded_paths[1].stem) = {}
    /\ WithStem(filtered, uploaded_paths[2].stem) # {}

\* The record the verification call for record k answered with.
AnswerOf(d, k) == extract_json(verSlot[d][k].resp.json)[1].obj

\* C18: every record verify_financial_extraction returns has the keys of the
\* extracted record it stands for; a field the answer holds has the answer's
\* value, and a field the answer does not mention keeps the extracted value.
C18_VerifiedKeepsShape ==
    \A d \in Tasks : VerifyReturned(d) =>
        \A k \in Indices(extracted[d]) :
            /\ Keys(verified[d][k]) = Keys(extracted[d][k])
            /\ \A key \in DOMAIN extracted[d][k].f \ {"__image_path"} :
                  /\ key \in DOMAIN verified[d][k].f
                  /\ verified[d][k].f[key] =
                        IF VerifyGotRecord(d, k) /\ key \in DOMAIN AnswerOf(d, k).f
                        THEN AnswerOf(d, k).f[key]
                        ELSE extracted[d][k].f[key]

\* The body is JSON that holds records: an array of objects, or one object.
HoldsRecords(text) ==
    /\ text.body.t \in {"array", "object"}
    /\ text.body.items # <<>>
    /\ \A i \in Indices(text.body.items) : text.body.items[i].isObj

\* C15: extract_json gives a one-element list with the object for a fenced
\* json object, all the elements in order for a JSON array of objects, the
\* empty list for text that is no JSON, and it never raises.
C15_ExtractJsonTolerant ==
    parsed.called =>
        /\ ~parsed.exc
        /\ (raw_text.fence = "json" /\ raw_text.body.t = "object")
               => parsed.val = raw_text.body.items /\ Len(parsed.val) = 1
        /\ (raw_text.fence = "none" /\ ~raw_text.before /\ ~raw_text.after
               /\ raw_text.body.t = "array" /\ HoldsRecords(raw_text))
               => parsed.val = raw_text.body.items
        /\ raw_text.body.t \in {"invalid", "braced"} => parsed.val = <<>>

\* C16: extract_json gives the records of a response in every tolerated
\* shape: inside a json fence, as a single object, and with prose before or
\* after the JSON, fenced or not.
C16_RecordsRecoveredFromEveryShape ==
    (parsed.called /\ HoldsRecords(raw_text) /\ raw_text.fence \in {"none", "json"}) =>
        /\ ~parsed.exc
        /\ parsed.val = raw_text.body.items

\* C17: no two tasks that run at the same time write the same location;
\* here, no two document tasks have field_config.json open for writing at
\* the same time.
C17_NoSharedWrites ==
    \A t, u \in Indices(loader) :
        (loader[t].at = "writing" /\ loader[u].at = "writing") => t = u

\* The position of the first occurrence of x in a list that holds it.
FirstAt(list, x) == CHOOSE i \in Indices(list) : list[i] = x /\ \A j \in 1..(i - 1) : list[j] # x

\* C21: get_active_fields returns every configured field when the selection
\* is omitted; otherwise exactly the configured fields named in the selection,
\* each once and as configured, in the order the selection first names them;
\* names that are not configured are left out.
C21_ActiveFieldsFollowSelection ==
    answer.op = "get_active_fields" =>
        LET names == answer.selection.names
            result == answer.result
        IN  IF ~answer.selection.given THEN result = fields
            ELSE /\ KeysOf(result) = {names[i] : i \in Indices(names)} \cap KeysOf(fields)
                 /\ \A i \in Indices(result) : result[i].val = Lookup(fields, result[i].key)
                 /\ \A i, j \in Indices(result) :
                        i < j => FirstAt(names, result[i].key) < FirstAt(names, result[j].key)

\* A selection that names an unknown field, names a field twice and orders
\* two fields against the configuration gave two fields.
C21_Witness ==
    /\ answer.op = "get_active_fields"
    /\ answer.selection = Selected(<<"currency", "ghost", "invoice_date", "currency">>)
    /\ Len(answer.result) = 2
    /\ \E i, j \in Indices(fields) :
          i < j /\ fields[i].key = "invoice_date" /\ fields[j].key = "currency"

\* The lines of a prompt about a field.
Says(prompt, name) == {prompt.lines[i].says : i \in {j \in Indices(prompt.lines) : prompt.lines[j].name = name}}

\* C22: the extraction prompt and the verification prompt each name every
\* active field, with its required marker and its default where it has them,
\* and end with the closing directive, for every selection and every field.
C22_PromptsEnumerateAndClose ==
    answer.op \in {"generate_extraction_prompt", "generate_verification_prompt"} =>
        LET active == get_active_fields(Self, answer.selection)
        IN  /\ answer.result.closing
            /\ \A i \in Indices(active) :
                   LET field == active[i].val
                       says == Says(answer.result, field.name)
                   IN  /\ says # {}
                       /\ field.required => says \cap {"REQUIRED", "cannot be empty"} # {}
                       /\ field.default_value # "" => "defaults to" \in says

\* C23: every name a preset lists is the name of a configured field, and
\* every field is stored under its own name.
C23_PresetsNameFieldsKeysAreNames ==
    /\ \A p \in Indices(presets) : \A k \in Indices(presets[p].val) :
           HasKey(fields, presets[p].val[k])
    /\ \A i \in Indices(fields) : fields[i].key = fields[i].val.name

\* Two lists of fields agree in name, data_type and validation_rules.
SameSchema(a, b) ==
    /\ Len(a) = Len(b)
    /\ \A i \in Indices(a) :
           /\ a[i].val.name = b[i].val.name
           /\ a[i].val.data_type = b[i].val.data_type
           /\ a[i].val.validation_rules = b[i].val.validation_rules

C30_ConstructionKeepsStoredConfig ==
    [][saved = "stored" => saved' # "defaults"]_vars

\* The documents whose stages have been entered.
Entered == Indices(ocrSlot)

\* C26: a record carries the page its extraction call was made on from the
\* extraction through verification and enrichment, whatever the calls answer,
\* and every returned record carries a page of its own document, from which
\* records were extracted, and that document's stem.
C26_TagsNameTheSourcePage ==
    /\ \A d \in Entered : \A p \in Indices(ocrSlot[d]) : \A i \in Indices(ocrSlot[d][p].val) :
           ocrSlot[d][p].val[i].f["__image_path"] = PagesOf(d)[p]
    /\ \A d \in Entered :
           dpc[d] \in {"enrich", "done"} =>
               /\ Len(verified[d]) = Len(extracted[d])
               /\ Len(enriched[d]) = Len(extracted[d])
               /\ \A k \in Indices(extracted[d]) :
                      /\ verified[d][k].f["__image_path"] = extracted[d][k].f["__image_path"]
                      /\ enriched[d][k].f["__image_path"] = extracted[d][k].f["__image_path"]
    /\ pc = "returned" =>
           \A i \in Indices(filtered) :
               \E d \in Entered :
                   /\ filtered[i].f["__doc_stem"] = StemOf(d)
                   /\ \E p \in Indices(ocrSlot[d]) :
                          /\ filtered[i].f["__image_path"] = PagesOf(d)[p]
                          /\ ocrSlot[d][p].val # <<>>

\* A run returned the record of a page whose extraction response carried
\* tags of its own.
C26_Witness ==
    /\ pc = "returned"
    /\ filtered # <<>>
    /\ \E d \in Entered : \E p \in Indices(ocrSlot[d]) :
          /\ ocrSlot[d][p].resp = Text(JsonArray(<<ObjItem(InvoiceWithPipelineKeys)>>))
          /\ \E i \in Indices(filtered) : filtered[i].f["__image_path"] = PagesOf(d)[p]

\* A run returned a record whose verification answer carried tags of its own.
C26_WitnessVerification ==
    /\ pc = "returned"
    /\ \E d \in Entered : \E k \in Indices(verSlot[d]) :
          /\ verSlot[d][k].resp = Text(JsonObject(Retagged))
          /\ \E i \in Indices(filtered) : filtered[i] = docRet[d].val[k]

\* C27: every page gives the output of ocr_financial_document at most one
\* record, so a document has as many extracted records as it has pages whose
\* extraction gave any.
C27_OneRecordPerPage ==
    \A d \in Entered :
        /\ \A p \in Indices(ocrSlot[d]) : Len(ocrSlot[d][p].val) <= 1
        /\ dpc[d] # "ocr" =>
               Len(extracted[d]) = Cardinality({p \in Indices(ocrSlot[d]) : ocrSlot[d][p].val # <<>>})

\* A call of the stage has been made (it is in flight or has finished).
Started(calls) == \E k \in Indices(calls) : calls[k] # "queued"
AllDone(calls) == \A k \in Indices(calls) : calls[k] = "done"

\* C25: no extraction call is made before every input is rasterised and
\* grouped; within a document no verification call is made before every
\* extraction call has returned or raised, and no enrichment call before
\* every verification call has.
C25_StagesInOrder ==
    \A d \in Jobs :
        /\ Started(call[d].ocr) =>
               /\ run.pc # "group"
               /\ run.raster = "idle"
               /\ \A e \in Jobs : job[e].at # "file"
        /\ Started(call[d].verify) => AllDone(call[d].ocr)
        /\ Started(call[d].enrich) => AllDone(call[d].verify)

\* One document is being enriched while another is still being extracted,
\* each with more pages or records than one.
C25_Witness ==
    \E d, e \in Jobs :
        /\ job[d].at = "enrich" /\ Flying(d) # {}
        /\ Len(call[d].ocr) > 1 /\ Len(call[d].verify) > 1
        /\ job[e].at = "ocr" /\ Flying(e) # {} /\ Len(call[e].ocr) > 1

\* C28: at most PoolSize documents are in progress, each with at most
\* PoolSize calls in flight, so at most PoolSize * PoolSize calls are in
\* flight, however many documents and pages the input has.
C28_CallsInFlightBounded ==
    /\ Cardinality(Running) <= PoolSize
    /\ \A d \in Jobs : Cardinality(Flying(d)) <= PoolSize
    /\ Cardinality(InFlight) <= PoolSize * PoolSize

\* Every worker of every pool is busy while a document and calls wait.
C28_Witness ==
    /\ Cardinality(InFlight) = PoolSize * PoolSize
    /\ \E d \in Jobs : job[d].at = "queued"
    /\ \E d \in Running : \E k \in Indices(Current(d)) : Current(d)[k] = "queued"

\* C29: every run of process_invoices_as_docs returns in the end.
C29_RunReturns == <>(run.pc = "returned")

\* A run with more documents than the document pool has workers, each with
\* more pages than a stage pool has workers, has returned.
C29_Witness ==
    /\ run.pc = "returned"
    /\ Len(job) > PoolSize
    /\ \A d \in Jobs : Len(call[d].ocr) > PoolSize /\ Len(call[d].enrich) > PoolSize

====
